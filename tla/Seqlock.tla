------------------------------ MODULE Seqlock ------------------------------
(***************************************************************************)
(* godby/Seqlock.h: one writer, any number of readers.                     *)
(*                                                                         *)
(* M_value is a set of words that store() writes and load() copies one at  *)
(* a time, in any order; a word holds the number of the store that wrote   *)
(* it (0: the uninitialized content of a new Seqlock).  M_seq counts       *)
(* modulo Word.                                                            *)
(*                                                                         *)
(* The signal fences order nothing but the compiler.  With WeakOrder the   *)
(* processor may perform the writes of M_value before the release store    *)
(* that announces them, as AArch64 may; without it stores and loads are    *)
(* performed in program order, as on x86.                                  *)
(***************************************************************************)
EXTENDS Integers

CONSTANTS Readers,      \* the threads that call load()
          Words,        \* the words of M_value
          Word,         \* size_t arithmetic is modulo Word
          MaxStores,    \* bound: how many times the writer stores
          WeakOrder     \* may M_value be written before M_seq is odd?

ASSUME SeqWordAssumption == /\ MaxStores \in Nat
                            /\ Word \in Nat
                            /\ Word > 2 * MaxStores + 1
ASSUME OrderAssumption == WeakOrder \in BOOLEAN

VARIABLES seq,      \* M_seq
          value,    \* M_value: the store each word comes from
          stores,   \* how many stores have completed
          writer,   \* the writer's program counter, seq0, words left to write
          reader,   \* each reader's program counter, seq0, words left, copy
          ret       \* each reader's answer or Busy

vars == <<seq, value, stores, writer, reader, ret>>

Add(x, k) == (x + k) % Word
Whole(n) == [w \in Words |-> n]
Busy == Whole(-1)

WriterIdle == [pc |-> "idle", seq0 |-> 0, left |-> {}]
ReaderIdle == [pc |-> "idle", seq0 |-> 0, left |-> {}, copy |-> Whole(0)]

Init ==
    /\ seq = 0
    /\ value = Whole(0)
    /\ stores = 0
    /\ writer = WriterIdle
    /\ reader = [r \in Readers |-> ReaderIdle]
    /\ ret = [r \in Readers |-> Whole(0)]

-----------------------------------------------------------------------------
(* store(): load M_seq, which only the writer changes.                     *)
StoreBegin ==
    /\ writer.pc = "idle"
    /\ stores < MaxStores
    /\ writer' = [pc |-> "odd", seq0 |-> seq, left |-> Words]
    /\ UNCHANGED <<seq, value, stores, reader, ret>>

(* store(): M_seq.store(seq0 + 1) tells the readers to stay away.          *)
StoreOdd ==
    /\ writer.pc = "odd"
    /\ seq' = Add(writer.seq0, 1)
    /\ writer' = [writer EXCEPT !.pc = "write"]
    /\ UNCHANGED <<value, stores, reader, ret>>

(* store(): M_value = desired, one word.                                   *)
StoreWord(w) ==
    /\ writer.pc = "write" \/ (WeakOrder /\ writer.pc = "odd")
    /\ w \in writer.left
    /\ value' = [value EXCEPT ![w] = stores + 1]
    /\ writer' = [writer EXCEPT !.left = @ \ {w}]
    /\ UNCHANGED <<seq, stores, reader, ret>>

(* Mutant: M_seq is made even before the last word is written.             *)
StoreEvenEarly ==
    /\ writer.pc = "write"
    /\ seq' = Add(writer.seq0, 2)
    /\ stores' = stores + 1
    /\ writer' = WriterIdle
    /\ UNCHANGED <<value, reader, ret>>

(* Mutant: the second increment is forgotten.                              *)
StoreEvenForgotten ==
    /\ writer.pc = "write"
    /\ writer.left = {}
    /\ seq' = Add(writer.seq0, 1)
    /\ stores' = stores + 1
    /\ writer' = WriterIdle
    /\ UNCHANGED <<value, reader, ret>>

(* store(): M_seq.store(seq0 + 2).                                         *)
StoreEven ==
    /\ writer.pc = "write"
    /\ writer.left = {}
    /\ seq' = Add(writer.seq0, 2)
    /\ stores' = stores + 1
    /\ writer' = WriterIdle
    /\ UNCHANGED <<value, reader, ret>>

-----------------------------------------------------------------------------
LoadCall(r) ==
    /\ reader[r].pc = "idle"
    /\ reader' = [reader EXCEPT ![r].pc = "begin"]
    /\ ret' = [ret EXCEPT ![r] = Busy]
    /\ UNCHANGED <<seq, value, stores, writer>>

(* load(): seq0 = M_seq.                                                   *)
LoadBegin(r) ==
    /\ reader[r].pc = "begin"
    /\ reader' = [reader EXCEPT ![r] =
                    [pc |-> "copy", seq0 |-> seq, left |-> Words,
                     copy |-> Whole(0)]]
    /\ UNCHANGED <<seq, value, stores, writer, ret>>

(* load(): copy = M_value, one word.                                       *)
LoadWord(r, w) ==
    /\ reader[r].pc = "copy"
    /\ w \in reader[r].left
    /\ reader' = [reader EXCEPT ![r].left = @ \ {w}, ![r].copy[w] = value[w]]
    /\ UNCHANGED <<seq, value, stores, writer, ret>>

(* Mutant: the test for an odd M_seq is dropped.                           *)
LoadEndIgnoresOdd(r) ==
    /\ reader[r].pc = "copy"
    /\ reader[r].left = {}
    /\ IF seq = reader[r].seq0
       THEN /\ reader' = [reader EXCEPT ![r] = ReaderIdle]
            /\ ret' = [ret EXCEPT ![r] = reader[r].copy]
       ELSE /\ reader' = [reader EXCEPT ![r] = [ReaderIdle EXCEPT !.pc = "begin"]]
            /\ UNCHANGED ret
    /\ UNCHANGED <<seq, value, stores, writer>>

(* load(): seq1 = M_seq; do it again unless nothing was stored meanwhile.  *)
LoadEnd(r) ==
    /\ reader[r].pc = "copy"
    /\ reader[r].left = {}
    /\ IF seq = reader[r].seq0 /\ reader[r].seq0 % 2 = 0
       THEN /\ reader' = [reader EXCEPT ![r] = ReaderIdle]
            /\ ret' = [ret EXCEPT ![r] = reader[r].copy]
       ELSE /\ reader' = [reader EXCEPT ![r] = [ReaderIdle EXCEPT !.pc = "begin"]]
            /\ UNCHANGED ret
    /\ UNCHANGED <<seq, value, stores, writer>>

-----------------------------------------------------------------------------
WriterNext == StoreBegin \/ StoreOdd \/ (\E w \in Words : StoreWord(w)) \/ StoreEven

ReaderNext(r) ==
    \/ LoadCall(r) \/ LoadBegin(r) \/ LoadEnd(r)
    \/ \E w \in Words : LoadWord(r, w)

Next == WriterNext \/ \E r \in Readers : ReaderNext(r)

Spec == Init /\ [][Next]_vars

(* A thread inside a call is scheduled again and again.                    *)
Fairness ==
    /\ WF_vars(WriterNext /\ writer.pc # "idle")
    /\ \A r \in Readers : WF_vars(ReaderNext(r) /\ reader[r].pc # "idle")

FairSpec == Spec /\ Fairness

-----------------------------------------------------------------------------
R == INSTANCE Register WITH reg <- stores

WriterPc == {"idle", "odd", "write"}
ReaderPc == {"idle", "begin", "copy"}

(* Every variable holds a value of its C++ type.                           *)
TypeOK ==
    /\ seq \in 0..(Word - 1)
    /\ value \in [Words -> 0..MaxStores]
    /\ stores \in 0..MaxStores
    /\ writer \in [pc : WriterPc, seq0 : 0..(Word - 1), left : SUBSET Words]
    /\ reader \in [Readers -> [pc : ReaderPc, seq0 : 0..(Word - 1),
                               left : SUBSET Words,
                               copy : [Words -> 0..MaxStores]]]
    /\ ret \in [Readers -> [Words -> -1..MaxStores]]

(* store() and load() implement an atomic cell: a load returns all words   *)
(* of one store, of the store that was the last one at some instant of the *)
(* call, however the copies of the words interleave.                       *)
Atomic == R!Spec

(* No load returns words of two stores ("copy.a + 100 != copy.b" ends the  *)
(* fuzz test of Seqlock).                                                  *)
NotTorn ==
    \A r \in Readers : \A v, w \in Words : ret[r][v] = ret[r][w]

(* The inductive invariant behind Atomic: M_seq is twice the number of     *)
(* stores, plus one while the words are being written; and what a reader   *)
(* has copied since it loaded seq0 is the current value as long as M_seq   *)
(* still is the even number seq0.                                          *)
WriterOK ==
    /\ writer.pc # "idle" => stores < MaxStores /\ writer.seq0 = 2 * stores
    /\ writer.pc = "odd" => writer.left = Words
    /\ writer.pc \in {"idle", "odd"} =>
          /\ seq = 2 * stores
          /\ \A w \in Words : value[w] = stores
    /\ writer.pc = "write" =>
          /\ seq = 2 * stores + 1
          /\ \A w \in Words :
                value[w] = IF w \in writer.left THEN stores ELSE stores + 1

ReaderOK(r) ==
    /\ reader[r].pc # "idle" => ret[r] = Busy
    /\ reader[r].pc = "copy" =>
          /\ reader[r].seq0 <= seq
          /\ (reader[r].seq0 = seq /\ writer.pc # "write") =>
                \A w \in Words \ reader[r].left : reader[r].copy[w] = stores

Inv == TypeOK /\ WriterOK /\ \A r \in Readers : ReaderOK(r)

(* A load that began returns once the writer is done storing.              *)
LoadReturns ==
    \A r \in Readers : reader[r].pc # "idle" ~> reader[r].pc = "idle"
=============================================================================

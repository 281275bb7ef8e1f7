---------------------------- MODULE AtomicQueue ----------------------------
(***************************************************************************)
(* godby/AtomicQueue.h: the bounded multi-producer multi-consumer queue.   *)
(*                                                                         *)
(* push() and pop() take a ticket from head_ or tail_ (fetch_add); the try *)
(* variants take it with a compare-exchange loop after a test for full or  *)
(* empty.  A ticket names a slot, ticket % size_, and the thread waits at  *)
(* the slot until it can store or load there.  A try call that fails is    *)
(* made again, as RetryDecorator does.                                     *)
(*                                                                         *)
(* Protocol is "any" for AtomicQueue2/B2, whose slots have a state beside  *)
(* a plain element, and "atomic" for AtomicQueue/B, whose slots are one    *)
(* std::atomic<T> with NIL for empty.  With Spsc one producer and one      *)
(* consumer use plain loads and stores in place of read-modify-writes.     *)
(* The n-th element ever offered is the number n.  A spurious failure of   *)
(* compare_exchange_weak changes nothing and is a stuttering step.         *)
(***************************************************************************)
EXTENDS Integers, FiniteSets

CONSTANTS Producers, Consumers,
          Size,         \* size_
          Word,         \* unsigned arithmetic is modulo Word, a power of two
          Start,        \* head_ and tail_ after Start pushes and pops
          Calls,        \* the calls in use: a subset of {"wait", "try"}
          Kinds,        \* the kinds of queue: sets of [protocol, spsc]
          MaxPush,      \* bound: pushes in all
          MaxPop        \* bound: pops in all

ASSUME SizeAssumption == Size \in Nat \ {0} /\ 2 * Size <= Word /\ Word \in Nat
ASSUME StartAssumption == Start \in 0..(Word - 1)
ASSUME CallsAssumption == Calls \subseteq {"wait", "try"}
ASSUME KindsAssumption == Kinds \subseteq [protocol : {"any", "atomic"}, spsc : BOOLEAN]
ASSUME BoundAssumption == MaxPush \in Nat /\ MaxPop \in Nat
ASSUME ThreadAssumption == IsFiniteSet(Producers) /\ IsFiniteSet(Consumers)
(* The counters differ by less than half of their range.                   *)
ASSUME RoomAssumption == MaxPush < Word \div 2 /\ MaxPop < Word \div 2

VARIABLES kind,         \* which queue it is
          users,        \* the threads that use it
          head, tail,   \* head_, tail_
          slots,        \* states_ and elements_
          prod, cons,   \* each thread's program counter and locals
          offered,      \* how many elements were offered (names the next one)
          asked,        \* how many pops were begun
          got           \* the elements pop() has returned

vars == <<kind, users, head, tail, slots, prod, cons, offered, asked, got>>

Spsc == kind.spsc
Protocol == kind.protocol

None == 0               \* no element: NIL, or moved from

Inc(x) == (x + 1) % Word

(* Mutant: the difference is compared as an unsigned number.               *)
DistanceUnsigned(a, b) == (a - b) % Word

(* static_cast<int>(a - b)                                                 *)
Distance(a, b) == LET d == (a - b) % Word IN IF 2 * d < Word THEN d ELSE d - Word

(* do_push, do_pop: the slot of a ticket.  remap_index permutes the slots, *)
(* which nothing here tells apart.                                         *)
SlotOf(ticket) == ticket % Size
Full(h, t) == Distance(h, t) >= Size
Empty(h, t) == Distance(h, t) <= 0

Idle == [pc |-> "idle", ticket |-> 0, elem |-> None]

Init ==
    /\ kind \in Kinds
    /\ users \in SUBSET (Producers \cup Consumers)
    /\ IF Spsc THEN /\ Cardinality(users \cap Producers) = 1
                    /\ Cardinality(users \cap Consumers) = 1
       ELSE users = Producers \cup Consumers
    /\ head = Start
    /\ tail = Start
    /\ slots = [s \in 0..(Size - 1) |-> [state |-> "EMPTY", elem |-> None]]
    /\ prod = [p \in Producers |-> Idle]
    /\ cons = [c \in Consumers |-> Idle]
    /\ offered = 0
    /\ asked = 0
    /\ got = {}

-----------------------------------------------------------------------------
(* push(): head = head_.fetch_add(1).                                      *)
Push(p) ==
    /\ "wait" \in Calls
    /\ prod[p].pc = "idle" /\ p \in users /\ offered < MaxPush
    /\ offered' = offered + 1
    /\ prod' = [prod EXCEPT ![p].pc = "slot", ![p].ticket = head,
                            ![p].elem = offered + 1]
    /\ head' = Inc(head)
    /\ UNCHANGED <<kind, users, tail, slots, cons, got, asked>>

(* try_push(): load head_.                                                 *)
TryPush(p) ==
    /\ "try" \in Calls
    /\ prod[p].pc = "idle" /\ p \in users /\ offered < MaxPush
    /\ offered' = offered + 1
    /\ prod' = [prod EXCEPT ![p].pc = "check", ![p].ticket = head,
                            ![p].elem = offered + 1]
    /\ UNCHANGED <<kind, users, head, tail, slots, cons, got, asked>>

(* try_push(): load tail_ and test for full; RetryDecorator calls again.   *)
TryPushCheck(p) ==
    /\ prod[p].pc = "check"
    /\ prod' = [prod EXCEPT ![p].pc =
                  IF Full(prod[p].ticket, tail) THEN "again" ELSE "cas"]
    /\ UNCHANGED <<kind, users, head, tail, slots, cons, offered, got, asked>>

TryPushAgain(p) ==
    /\ prod[p].pc = "again"
    /\ prod' = [prod EXCEPT ![p].pc = "check", ![p].ticket = head]
    /\ UNCHANGED <<kind, users, head, tail, slots, cons, offered, got, asked>>

(* Mutant: a failed compare-exchange does not reload the expected value.   *)
TryPushCasNoReload(p) ==
    /\ prod[p].pc = "cas"
    /\ \/ /\ head = prod[p].ticket \/ Spsc
          /\ head' = Inc(prod[p].ticket)
          /\ prod' = [prod EXCEPT ![p].pc = "slot"]
       \/ /\ head # prod[p].ticket /\ ~Spsc
          /\ prod' = [prod EXCEPT ![p].pc = "check"]
          /\ UNCHANGED head
    /\ UNCHANGED <<kind, users, tail, slots, cons, offered, got, asked>>

(* try_push(): compare-exchange head_ (a plain store with Spsc).           *)
TryPushCas(p) ==
    /\ prod[p].pc = "cas"
    /\ \/ /\ head = prod[p].ticket \/ Spsc
          /\ head' = Inc(prod[p].ticket)
          /\ prod' = [prod EXCEPT ![p].pc = "slot"]
       \/ /\ head # prod[p].ticket /\ ~Spsc
          /\ prod' = [prod EXCEPT ![p].pc = "check", ![p].ticket = head]
          /\ UNCHANGED head
    /\ UNCHANGED <<kind, users, tail, slots, cons, offered, got, asked>>

(* Mutant: the slot is taken by a plain load and store.                    *)
ClaimStoreNoCas(p) ==
    LET s == SlotOf(prod[p].ticket) IN
    /\ prod[p].pc = "slot"
    /\ slots[s].state = "EMPTY"
    /\ prod' = [prod EXCEPT ![p].pc = "write"]
    /\ UNCHANGED <<kind, users, head, tail, slots, cons, offered, got, asked>>

(* do_push_any(): wait for EMPTY and take the slot, EMPTY -> STORING; with *)
(* Spsc, and for an atomic element, the wait leaves the slot as it is.     *)
ClaimStore(p) ==
    LET s == SlotOf(prod[p].ticket) IN
    /\ prod[p].pc = "slot"
    /\ slots[s].state = "EMPTY"
    /\ Protocol = "any" \/ Spsc
    /\ prod' = [prod EXCEPT ![p].pc = "write"]
    /\ slots' = IF Spsc THEN slots ELSE [slots EXCEPT ![s].state = "STORING"]
    /\ UNCHANGED <<kind, users, head, tail, cons, offered, got, asked>>

(* do_push_any(): q_element = element.                                     *)
Write(p) ==
    LET s == SlotOf(prod[p].ticket) IN
    /\ prod[p].pc = "write"
    /\ Protocol = "any"
    /\ slots' = [slots EXCEPT ![s].elem = prod[p].elem]
    /\ prod' = [prod EXCEPT ![p].pc = "stored", ![p].elem = None]
    /\ UNCHANGED <<kind, users, head, tail, cons, offered, got, asked>>

(* do_push_any(): state = STORED.                                          *)
Stored(p) ==
    LET s == SlotOf(prod[p].ticket) IN
    /\ prod[p].pc = "stored"
    /\ slots' = [slots EXCEPT ![s].state = "STORED"]
    /\ prod' = [prod EXCEPT ![p] = Idle]
    /\ UNCHANGED <<kind, users, head, tail, cons, offered, got, asked>>

(* do_push_atomic(): NIL -> element in one step, after the wait with Spsc. *)
StoreAtomic(p) ==
    LET s == SlotOf(prod[p].ticket) IN
    /\ Protocol = "atomic"
    /\ \/ prod[p].pc = "slot" /\ ~Spsc /\ slots[s].state = "EMPTY"
       \/ prod[p].pc = "write"
    /\ slots' = [slots EXCEPT ![s] = [state |-> "STORED", elem |-> prod[p].elem]]
    /\ prod' = [prod EXCEPT ![p] = Idle]
    /\ UNCHANGED <<kind, users, head, tail, cons, offered, got, asked>>

-----------------------------------------------------------------------------
(* pop(): tail = tail_.fetch_add(1).                                       *)
Pop(c) ==
    /\ "wait" \in Calls
    /\ cons[c].pc = "idle" /\ c \in users /\ asked < MaxPop
    /\ cons' = [cons EXCEPT ![c].pc = "slot", ![c].ticket = tail]
    /\ tail' = Inc(tail)
    /\ asked' = asked + 1
    /\ UNCHANGED <<kind, users, head, slots, prod, offered, got>>

(* try_pop(): load tail_.                                                  *)
TryPop(c) ==
    /\ "try" \in Calls
    /\ cons[c].pc = "idle" /\ c \in users /\ asked < MaxPop
    /\ cons' = [cons EXCEPT ![c].pc = "check", ![c].ticket = tail]
    /\ asked' = asked + 1
    /\ UNCHANGED <<kind, users, head, tail, slots, prod, offered, got>>

(* try_pop(): load head_ and test for empty; RetryDecorator calls again.   *)
TryPopCheck(c) ==
    /\ cons[c].pc = "check"
    /\ cons' = [cons EXCEPT ![c].pc =
                  IF Empty(head, cons[c].ticket) THEN "again" ELSE "cas"]
    /\ UNCHANGED <<kind, users, head, tail, slots, prod, offered, got, asked>>

TryPopAgain(c) ==
    /\ cons[c].pc = "again"
    /\ cons' = [cons EXCEPT ![c].pc = "check", ![c].ticket = tail]
    /\ UNCHANGED <<kind, users, head, tail, slots, prod, offered, got, asked>>

(* try_pop(): compare-exchange tail_ (a plain store with Spsc).            *)
TryPopCas(c) ==
    /\ cons[c].pc = "cas"
    /\ \/ /\ tail = cons[c].ticket \/ Spsc
          /\ tail' = Inc(cons[c].ticket)
          /\ cons' = [cons EXCEPT ![c].pc = "slot"]
       \/ /\ tail # cons[c].ticket /\ ~Spsc
          /\ cons' = [cons EXCEPT ![c].pc = "check", ![c].ticket = tail]
          /\ UNCHANGED tail
    /\ UNCHANGED <<kind, users, head, slots, prod, offered, got, asked>>

(* do_pop_any(): wait for STORED and take the slot, STORED -> LOADING;     *)
(* do_pop_atomic() with Spsc: load an element that is not NIL.             *)
ClaimLoad(c) ==
    LET s == SlotOf(cons[c].ticket) IN
    /\ cons[c].pc = "slot"
    /\ slots[s].state = "STORED"
    /\ Protocol = "any" \/ Spsc
    /\ cons' = [cons EXCEPT ![c].pc = "read"]
    /\ slots' = IF Spsc THEN slots ELSE [slots EXCEPT ![s].state = "LOADING"]
    /\ UNCHANGED <<kind, users, head, tail, prod, offered, got, asked>>

(* do_pop_any(): element = std::move(q_element).                           *)
Read(c) ==
    LET s == SlotOf(cons[c].ticket) IN
    /\ cons[c].pc = "read"
    /\ Protocol = "any"
    /\ cons' = [cons EXCEPT ![c].pc = "empty", ![c].elem = slots[s].elem]
    /\ slots' = [slots EXCEPT ![s].elem = None]
    /\ UNCHANGED <<kind, users, head, tail, prod, offered, got, asked>>

(* do_pop_any(): state = EMPTY, and return the element.                    *)
Emptied(c) ==
    LET s == SlotOf(cons[c].ticket) IN
    /\ cons[c].pc = "empty"
    /\ slots' = [slots EXCEPT ![s].state = "EMPTY"]
    /\ got' = got \cup {cons[c].elem}
    /\ cons' = [cons EXCEPT ![c] = Idle]
    /\ UNCHANGED <<kind, users, head, tail, prod, offered, asked>>

(* Mutant: the element is read and NIL is not stored.                      *)
LoadAtomicKeeps(c) ==
    LET s == SlotOf(cons[c].ticket) IN
    /\ Protocol = "atomic"
    /\ \/ cons[c].pc = "slot" /\ ~Spsc /\ slots[s].state = "STORED"
       \/ cons[c].pc = "read"
    /\ slots' = [slots EXCEPT ![s].state = "EMPTY"]
    /\ got' = got \cup {slots[s].elem}
    /\ cons' = [cons EXCEPT ![c] = Idle]
    /\ UNCHANGED <<kind, users, head, tail, prod, offered, asked>>

(* do_pop_atomic(): exchange with NIL until an element comes out.          *)
LoadAtomic(c) ==
    LET s == SlotOf(cons[c].ticket) IN
    /\ Protocol = "atomic"
    /\ \/ cons[c].pc = "slot" /\ ~Spsc /\ slots[s].state = "STORED"
       \/ cons[c].pc = "read"
    /\ slots' = [slots EXCEPT ![s] = [state |-> "EMPTY", elem |-> None]]
    /\ got' = got \cup {slots[s].elem}
    /\ cons' = [cons EXCEPT ![c] = Idle]
    /\ UNCHANGED <<kind, users, head, tail, prod, offered, asked>>

-----------------------------------------------------------------------------
ProducerNext(p) ==
    \/ Push(p) \/ TryPush(p) \/ TryPushCheck(p) \/ TryPushAgain(p) \/ TryPushCas(p)
    \/ ClaimStore(p) \/ Write(p) \/ Stored(p) \/ StoreAtomic(p)

ConsumerNext(c) ==
    \/ Pop(c) \/ TryPop(c) \/ TryPopCheck(c) \/ TryPopAgain(c) \/ TryPopCas(c)
    \/ ClaimLoad(c) \/ Read(c) \/ Emptied(c) \/ LoadAtomic(c)

Next == \/ \E p \in Producers : ProducerNext(p)
        \/ \E c \in Consumers : ConsumerNext(c)

Spec == Init /\ [][Next]_vars

(* Every thread is scheduled again and again.                              *)
Fairness == /\ \A p \in Producers : WF_vars(ProducerNext(p))
            /\ \A c \in Consumers : WF_vars(ConsumerNext(c))

FairSpec == Spec /\ Fairness

-----------------------------------------------------------------------------
Pcs == {"idle", "check", "again", "cas", "slot", "write", "stored", "read", "empty"}
Elements == 0..MaxPush
Frame == [pc : Pcs, ticket : 0..(Word - 1), elem : Elements]

(* Every variable holds a value of its C++ type.                           *)
TypeOK ==
    /\ head \in 0..(Word - 1) /\ tail \in 0..(Word - 1)
    /\ slots \in [0..(Size - 1) ->
                    [state : {"EMPTY", "STORING", "STORED", "LOADING"},
                     elem : Elements]]
    /\ prod \in [Producers -> Frame]
    /\ cons \in [Consumers -> Frame]
    /\ kind \in Kinds /\ users \subseteq Producers \cup Consumers
    /\ offered \in Elements /\ asked \in 0..MaxPop
    /\ got \subseteq Elements

(* Where an element is: with its producer, in a slot, with a consumer, or  *)
(* returned.                                                               *)
Places(e) ==
    ({"p"} \X {p \in Producers : prod[p].elem = e})
        \cup ({"s"} \X {s \in DOMAIN slots : slots[s].elem = e})
        \cup ({"c"} \X {c \in Consumers : cons[c].elem = e})
        \cup (IF e \in got THEN {<<"got", e>>} ELSE {})

(* No element is lost and none is handed out twice, whatever the number of *)
(* threads that wait at one slot and across the wrap-around of tickets.    *)
EachElementOnce ==
    /\ TypeOK
    /\ \A e \in 1..offered : Cardinality(Places(e)) = 1
    /\ None \notin got

(* The plain element of a slot is never accessed by two threads at a time. *)
ExclusiveAccess ==
    LET Writing == {p \in Producers : prod[p].pc \in {"write", "stored"}}
        Reading == {c \in Consumers : cons[c].pc \in {"read", "empty"}}
    IN /\ \A p, q \in Writing : SlotOf(prod[p].ticket) = SlotOf(prod[q].ticket) => p = q
       /\ \A c, d \in Reading : SlotOf(cons[c].ticket) = SlotOf(cons[d].ticket) => c = d
       /\ \A p \in Writing, c \in Reading :
             SlotOf(prod[p].ticket) # SlotOf(cons[c].ticket)

(* How many tickets producers are ahead of consumers; never near Word / 2. *)
Ahead == IF (head - tail) % Word < Word \div 2
         THEN (head - tail) % Word ELSE ((head - tail) % Word) - Word

(* A try call gives up only when the queue really is full (try_push) or    *)
(* empty (try_pop) at that instant, although it compares a counter it      *)
(* loaded before with one it loads now.                                    *)
TryFailsTruthfully ==
    [][/\ \A p \in Producers :
             prod[p].pc = "check" /\ prod'[p].pc = "again" => Ahead >= Size
       /\ \A c \in Consumers :
             cons[c].pc = "check" /\ cons'[c].pc = "again" => Ahead <= 0]_vars

(* When as many pops as pushes are made, every element gets through: no    *)
(* thread waits for ever at a slot, even if tickets for one slot overtake  *)
(* each other.                                                             *)
AllDelivered ==
    <>(got = 1..MaxPush)
=============================================================================

--------------------------- MODULE UnorderedDense ---------------------------
\* samples/contrib/unordered_dense.h: the table behind map and set.  m_values
\* holds the elements densely; m_buckets is a robin-hood index into it whose
\* entries carry the distance to the bucket of the key's hash, and a few bits of
\* the hash as fingerprint below it.
\*
\* A hash has UdWidth bits here (64 in the code) and the fingerprint one (eight).
\* An element is its key: the mapped value always moves together with it.
EXTENDS Integers, Sequences, SequencesExt, FiniteSetsExt

CONSTANTS UdKeys,         \* numbers, in the order of their hashes
          UdHashValues,   \* the hashes that occur
          UdWidth,        \* bits of a hash
          UdInitialBits,  \* 2^UdInitialBits buckets at first (2 in the code)
          UdMaxBits       \* sizes of value_idx_type, in bits

ASSUME UdAssumption == /\ UdKeys \subseteq Nat
                       /\ UdHashValues \subseteq 0..(2^UdWidth - 1)
                       /\ \A b \in UdMaxBits : UdInitialBits \leq b /\ b < UdWidth

VARIABLES udType,      \* the template's parameters: Hash, and the bits of the index
          udTable,     \* m_values, m_buckets, m_shifts, m_max_load_factor
          udContents   \* history: the keys a set would hold now

udVars == <<udType, udTable, udContents>>

UdDistInc == 2
UdNoBucket == [df |-> 0, idx |-> 0]
\* max_load_factor(): the default and the extreme.
UdLoads == {<<4, 5>>, <<1, 1>>}

Mixed(k) == udType.hash[k]
DistAndFingerprint(k, n) == (Mixed(k) % UdDistInc) + (n + 1) * UdDistInc
BucketIdx(t, k) == (Mixed(k) \div 2^t.shifts) % 2^udType.bits

MaxBucketCount == 2^udType.bits
BucketCount(t) == Cardinality(DOMAIN t.buckets)
NumBuckets(shifts) == Min({MaxBucketCount, 2^(UdWidth - shifts)})
\* m_max_bucket_capacity, a function of the other members
Capacity(n, load) == IF n = MaxBucketCount THEN n ELSE (n * load[1]) \div load[2]
BucketCapacity(t) == Capacity(BucketCount(t), t.load)

\* The bucket n steps after bucket b.
After(t, b, n) == t.buckets[(b + n) % BucketCount(t)]
\* The bucket that a search for k meets after n steps, and whether it is k's.
Probe(t, k, n) == After(t, BucketIdx(t, k), n)
Matches(t, k, n) ==
    /\ DistAndFingerprint(k, n) = Probe(t, k, n).df
    /\ t.values[Probe(t, k, n).idx + 1] = k
Steps(t) == 0..BucketCount(t)

\* calc_shifts_for_size(): no such shift up to the width of the index means that
\* the loop runs down to 0, and the shift by 64 in calc_num_buckets() is undefined.
ShiftsFor(t, size) ==
    {s \in 1..(UdWidth - UdInitialBits) :
        Capacity(NumBuckets(s), t.load) >= size
        /\ (NumBuckets(s) * t.load[1]) \div t.load[2] >= size}
CalcShifts(t, size) == Max(ShiftsFor(t, size))

AllocateBuckets(t, shifts) ==
    [t EXCEPT !.shifts = shifts,
              !.buckets = [b \in 0..(NumBuckets(shifts) - 1) |-> UdNoBucket]]
ClearBuckets(t) == [t EXCEPT !.buckets = [b \in DOMAIN @ |-> UdNoBucket]]

NextWhileLess(t, k) ==
    Min({n \in Steps(t) : DistAndFingerprint(k, n) >= Probe(t, k, n).df})

\* The bucket goes to `place', the entries up to the next empty one move up.
PlaceAndShiftUp(t, bucket, place) ==
    LET count == BucketCount(t)
        empty == Min({n \in 0..(count - 1) : After(t, place, n).df = 0})
        New(n, old) == IF n = 0 THEN bucket
                       ELSE IF n > empty THEN old
                       ELSE LET from == After(t, place, n - 1)
                            IN  [from EXCEPT !.df = @ + UdDistInc]
    IN  [t EXCEPT !.buckets =
            [b \in DOMAIN @ |-> New((b - place) % count, t.buckets[b])]]

\* Element i (counted from 0) is entered n steps after its own bucket.
PlaceElement(t, i, n) ==
    LET k == t.values[i + 1]
    IN  PlaceAndShiftUp(t, [df |-> DistAndFingerprint(k, n), idx |-> i],
                        (BucketIdx(t, k) + n) % BucketCount(t))

ClearAndFill(t) ==
    FoldLeftDomain(LAMBDA u, i : PlaceElement(u, i - 1, NextWhileLess(u, u.values[i])),
                   ClearBuckets(t), t.values)
IncreaseSize(t) == ClearAndFill(AllocateBuckets(t, t.shifts - 1))

\* do_try_emplace(), and the loops of both emplace(): the first step that finds
\* the key or a bucket it may displace.
EmplaceSearch(t, k) ==
    Min({n \in Steps(t) : \/ Matches(t, k, n)
                          \/ DistAndFingerprint(k, n) > Probe(t, k, n).df})
TryEmplace(t, k) ==
    LET n == EmplaceSearch(t, k)
        t1 == [t EXCEPT !.values = Append(@, k)]
        full == Len(t1.values) > BucketCapacity(t)
    IN  CASE Matches(t, k, n) -> t
          [] ~Matches(t, k, n) /\ ~full -> PlaceElement(t1, Len(t.values), n)
          [] ~Matches(t, k, n) /\ full /\ BucketCapacity(t) < MaxBucketCount
                -> IncreaseSize(t1)
          [] OTHER -> t   \* on_error_bucket_overflow()

\* do_find(): the first two buckets are only compared.
FindSearch(t, k) ==
    Min({n \in Steps(t) \cup {BucketCount(t) + 1} :
            \/ Matches(t, k, n)
            \/ n > 1 /\ DistAndFingerprint(k, n) > Probe(t, k, n).df})
Found(t, k) == Len(t.values) > 0 /\ Matches(t, k, FindSearch(t, k))

\* m_values after its last element took the place of element i.
MoveBackTo(values, i) == Front([values EXCEPT ![i + 1] = Last(values)])

\* do_erase(): the entries behind the bucket move down until one is in its own
\* bucket or empty (in a full table the run may come round to the first entry,
\* moved by then); the last element takes the place of the erased one.
DoErase(t, bucket) ==
    LET count == BucketCount(t)
        Behind(n) == IF n + 1 < count THEN After(t, bucket, n + 1).df
                   ELSE After(t, bucket, 1).df - UdDistInc
        run == Min({n \in 0..(count - 1) : Behind(n) < 2 * UdDistInc})
        New(n, old) == IF n = run THEN UdNoBucket
                       ELSE IF n > run THEN old
                       ELSE LET from == After(t, bucket, n + 1)
                            IN  [from EXCEPT !.df = @ - UdDistInc]
        gone == t.buckets[bucket].idx
        back == Len(t.values) - 1
        t1 == [t EXCEPT !.buckets =
                  [b \in DOMAIN @ |-> New((b - bucket) % count, t.buckets[b])]]
        home == BucketIdx(t, Last(t.values))
        last == Min({n \in Steps(t) : After(t1, home, n).idx = back})
    IN  IF gone = back THEN [t1 EXCEPT !.values = Front(@)]
        ELSE [t1 EXCEPT !.values = MoveBackTo(t.values, gone),
                        !.buckets[(home + last) % count].idx = gone]

\* do_erase_key(), with a search of its own
EraseSearch(t, k) ==
    Min({n \in Steps(t) : /\ n >= NextWhileLess(t, k)
                          /\ \/ DistAndFingerprint(k, n) # Probe(t, k, n).df
                             \/ Matches(t, k, n)})
EraseKey(t, k) ==
    LET n == EraseSearch(t, k)
    IN  IF t.values = <<>> \/ DistAndFingerprint(k, n) # Probe(t, k, n).df THEN t
        ELSE DoErase(t, (BucketIdx(t, k) + n) % BucketCount(t))

\* erase(iterator) and extract(iterator)
EraseAt(t, i) ==
    LET home == BucketIdx(t, t.values[i + 1])
        n == Min({m \in Steps(t) : After(t, home, m).idx = i})
    IN  DoErase(t, (home + n) % BucketCount(t))

\* Mutant: erase(first, last) erases at `first' until it has erased enough.
EraseRangeInPlace(t, first, last) ==
    FoldLeft(EraseAt, t, [j \in 1..(last - first) |-> first])

\* erase(first, last): from the left while elements from the end fill the holes,
\* then from the right.
EraseRange(t, first, last) ==
    LET mid == first + Min({last - first, Len(t.values) - last})
        left == [j \in 1..(mid - first) |-> first + j - 1]
        right == [j \in 1..(last - mid) |-> last - j]
    IN  FoldLeft(EraseAt, t, left \o right)

\* erase_if(), from the back to the front
EraseIf(t, keys) ==
    FoldRightDomain(LAMBDA i, u : IF u.values[i] \in keys THEN EraseAt(u, i - 1) ELSE u,
                    t.values, t)

\* copy_buckets()
Copied(t) == IF t.values = <<>> THEN AllocateBuckets(t, UdWidth - UdInitialBits)
             ELSE t

\* replace(): an element whose key is there already is replaced by the last one.
ReplaceOne(s, ignore) ==
    LET k == s.t.values[s.i + 1]
        n == EmplaceSearch(s.t, k)
    IN  IF Matches(s.t, k, n)
        THEN [s EXCEPT !.t.values = MoveBackTo(@, s.i)]
        ELSE [t |-> PlaceElement(s.t, s.i, n), i |-> s.i + 1]
Replaced(t, container) ==
    LET shifts == CalcShifts(t, Len(container))
        t1 == IF shifts < t.shifts THEN AllocateBuckets(t, shifts)
              ELSE ClearBuckets(t)
    IN  FoldLeft(ReplaceOne, [t |-> [t1 EXCEPT !.values = container], i |-> 0],
                 container).t

UdFresh == [values |-> <<>>, buckets |-> [b \in 0..(2^UdInitialBits - 1) |-> UdNoBucket],
            shifts |-> UdWidth - UdInitialBits, load |-> <<4, 5>>]

UdTypes ==
    {[hash |-> hash, bits |-> bits] : bits \in UdMaxBits,
        hash \in {h \in [UdKeys -> UdHashValues] :
                    \A j, k \in UdKeys : j < k => h[j] \leq h[k]}}

UdInit == udType \in UdTypes /\ udTable = UdFresh /\ udContents = {}

UdStep(t, contents) ==
    udTable' = t /\ udContents' = contents /\ UNCHANGED udType

\* insert, emplace, try_emplace, insert_or_assign and operator[]; at the limit of
\* the index an exception is thrown and nothing changes.
UdEmplace(k) ==
    UdStep(TryEmplace(udTable, k),
           IF Cardinality(udContents) = MaxBucketCount THEN udContents
           ELSE udContents \cup {k})
UdErase(k) == UdStep(EraseKey(udTable, k), udContents \ {k})
UdEraseRange(first, last) ==
    /\ first < last /\ last \leq Len(udTable.values)
    /\ UdStep(IF last = first + 1 THEN EraseAt(udTable, first)
              ELSE EraseRange(udTable, first, last),
              udContents \ {udTable.values[i] : i \in (first + 1)..last})
UdEraseIf(keys) == UdStep(EraseIf(udTable, keys), udContents \ keys)
UdCopy == UdStep(Copied(udTable), udContents)
\* The table that another one was move-assigned from.
UdMovedFrom == UdStep(UdFresh, {})
UdMaxLoadFactor(load) == UdStep([udTable EXCEPT !.load = load], udContents)

UdRehash(count) ==
    LET size == Max({count, Len(udTable.values)})
        shifts == CalcShifts(udTable, size)
    IN  /\ ShiftsFor(udTable, size) # {}
        /\ shifts # udTable.shifts
        /\ UdStep(ClearAndFill(AllocateBuckets(udTable, shifts)), udContents)
UdReserve(count) ==
    LET size == Max({count, Len(udTable.values)})
        shifts == CalcShifts(udTable, size)
    IN  /\ ShiftsFor(udTable, size) # {}
        /\ shifts < udTable.shifts
        /\ UdStep(ClearAndFill(AllocateBuckets(udTable, shifts)), udContents)

UdClear == UdStep(ClearBuckets([udTable EXCEPT !.values = <<>>]), {})
\* extract() takes the values, and replace() brings them back with one key added
\* at both ends, and perhaps a third time in between.
UdReplace(k) ==
    LET container == <<k>> \o udTable.values \o <<k>>
    IN  /\ ShiftsFor(udTable, Len(container)) # {}
        /\ UdStep(Replaced([udTable EXCEPT !.values = <<>>], container),
                  udContents \cup {k})

UdNext ==
    \/ \E k \in UdKeys : UdEmplace(k) \/ UdErase(k) \/ UdReplace(k)
    \/ \E i, j \in 0..Cardinality(UdKeys) : UdEraseRange(i, j)
    \/ \E keys \in kSubset(2, UdKeys) : UdEraseIf(keys)
    \/ UdCopy \/ UdMovedFrom \/ UdClear
    \/ \E load \in UdLoads : UdMaxLoadFactor(load)
    \/ \E count \in {0, Cardinality(UdKeys)} : UdRehash(count) \/ UdReserve(count)

----------------------------------------------------------------------------
\* The elements are those a set would hold after the same calls, each once:
\* erasing a range while elements from the end are moved into it, growing, the
\* removal of duplicates in replace() and the overflow of the index included.
HoldsWhatWasInserted ==
    IsInjective(udTable.values) /\ ToSet(udTable.values) = udContents

\* find(), the insertion and the erasure search in three different ways.  They
\* agree on which keys are there, because the index keeps its order through
\* displacement, backward shifts and rehashing: without it a key would be there
\* for find() and not for erase().
SearchesAgree ==
    \A k \in UdKeys :
        LET there == k \in udContents
            n == EraseSearch(udTable, k)
        IN  /\ Found(udTable, k) = there
            /\ Matches(udTable, k, EmplaceSearch(udTable, k)) = there
            /\ (DistAndFingerprint(k, n) = Probe(udTable, k, n).df) = there
=============================================================================

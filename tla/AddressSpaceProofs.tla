------------------------- MODULE AddressSpaceProofs -------------------------
(***************************************************************************)
(* AreasDisjoint, MappingsInAreas, SearchFromTop and NoWriteThrough of     *)
(* AddressSpace, for any number of threads and areas, any page size and    *)
(* any layout that PlacementAssumption admits.                             *)
(*                                                                         *)
(* The mappings are safe because of what a fault knows between its two     *)
(* parts: as long as no area has changed, its area is still the one it has *)
(* found.  The areas are apart because FindFreeRange finds a gap between   *)
(* neighbours, which is proved of the search as it is written.             *)
(***************************************************************************)
EXTENDS AddressSpace, Counting, TLAPS

Addresses == 0..(AddressLimit - 1)
Offsets == 0..kAddressSpaceTop

AreaType == [low : Addresses, high : Addresses, protection : SUBSET Accesses,
             cache : Mappable \cup {None}, offset : {0}, wired : BOOLEAN]

EntryType == [page : {None} \cup ((Caches \cup {None}) \X Offsets), writable : BOOLEAN]

FaultType == [at : {"idle", "get page", "map"}, va : Nat, area : AreaIds \cup {None},
              cache : Mappable \cup {None}, offset : Offsets, write : BOOLEAN,
              protection : SUBSET Accesses, page : {None} \cup (Caches \X Offsets), changed : BOOLEAN]

Types ==
  /\ AreasOf \subseteq AreaIds \cup (1..Len(Layout))
  /\ fAreas \in [AreasOf -> AreaType]
  /\ \A a \in AreasOf : fAreas[a].cache # None => a \in AreaIds
  /\ fPhysicalMap \in [PageAddresses -> EntryType]
  /\ copied \subseteq Copies \X Offsets
  /\ fault \in [Threads -> FaultType]
  /\ leakedReads \in Nat
  /\ resized \in BOOLEAN

\* What a thread's fault relies on: its area has not changed unless it knows.
FaultOK(t) ==
  /\ fault[t].at = "idle" => fault[t] = NoFault
  /\ fault[t].at # "idle" =>
       /\ fault[t].va \in PageAddresses /\ fault[t].cache \in Mappable
       /\ ~fault[t].changed =>
            /\ fault[t].area \in Containing(fault[t].va)
            /\ fAreas[fault[t].area].cache = fault[t].cache
            /\ fAreas[fault[t].area].protection = fault[t].protection
            /\ fault[t].offset = fault[t].va - fAreas[fault[t].area].low
  /\ fault[t].at = "map" =>
       \/ fault[t].page = <<fault[t].cache, fault[t].offset>>
       \/ /\ fault[t].cache \in Copies /\ ~fault[t].write
          /\ fault[t].page = <<Source[fault[t].cache], fault[t].offset>>

\* A read hold is leaked by a fault that has seen a change, and while one is
\* leaked nothing changes any more.
Seen == {t \in Threads : fault[t].changed}
LeakOK == leakedReads + Cardinality(Seen) <= Cardinality(Threads)

\* Only pages of caches that areas are made for are writable.
WriteOK ==
  \A va \in PageAddresses : fPhysicalMap[va].writable =>
    \E c \in Mappable \cup {None}, o \in Offsets : fPhysicalMap[va].page = <<c, o>>

\* Areas are apart, end at the top or below it, and one begins at 0.
Apart(a, b) == fAreas[a].high < fAreas[b].low \/ fAreas[b].high < fAreas[a].low

AreasOK ==
  /\ \E a \in AreasOf \ AreaIds : fAreas[a].low = 0
  /\ \A a \in AreasOf : fAreas[a].low <= fAreas[a].high /\ fAreas[a].high <= kAddressSpaceTop
  /\ \A a \in AreasOf \cap AreaIds : (fAreas[a].high - fAreas[a].low + 1) % PAGE_SIZE = 0
  /\ \A a, b \in AreasOf : a # b => Apart(a, b)

\* The page mapped at an address is the one its area says.
MappedRight(a, va) ==
  LET area == fAreas[a]
      own == <<area.cache, va - area.low>>
  IN  /\ \/ fPhysicalMap[va].page = own
         \/ area.cache \in Copies /\ fPhysicalMap[va].page = <<Source[area.cache], own[2]>>
      /\ fPhysicalMap[va].writable => area.protection \cap Writes # {} /\ fPhysicalMap[va].page = own

MapOK ==
  \A va \in PageAddresses : fPhysicalMap[va] # Unmapped => \E a \in Containing(va) : MappedRight(a, va)

IInv ==
  /\ Types
  /\ \A t \in Threads : FaultOK(t)
  /\ LeakOK
  /\ WriteOK
  /\ ~resized => AreasOK /\ MapOK

-----------------------------------------------------------------------------
(* The search for a free range. *)

\* Max and Min of bounded sets of numbers.
LEMMA MaxIs ==
  ASSUME NEW S \in SUBSET Int, S # {}, NEW bound \in Int, \A y \in S : y <= bound
  PROVE  Max(S) \in S /\ \A y \in S : Max(S) >= y
  BY GreatestNumber DEF Max

LEMMA MinIs ==
  ASSUME NEW S \in SUBSET Nat, S # {}
  PROVE  Min(S) \in S /\ \A y \in S : Min(S) <= y
<1>1. \E x \in S : \A y \in S : x <= y
  BY LeastNumber
<1> QED
  BY <1>1 DEF Min

LEMMA AreaFacts ==
  ASSUME Types, AreasOK, NEW a \in AreasOf
  PROVE  /\ fAreas[a].low \in Nat /\ fAreas[a].high \in Nat
         /\ fAreas[a].low <= fAreas[a].high /\ fAreas[a].high <= kAddressSpaceTop
<1>1. fAreas[a] \in AreaType
  BY DEF Types, AreasOf
<1>2. fAreas[a].low \in Addresses /\ fAreas[a].high \in Addresses
  BY <1>1 DEF AreaType
<1> QED
  BY <1>2, AddressSpaceAssumption DEF AreasOK, Addresses

LEMMA Limits ==
  /\ AddressLimit \in Nat \ {0} /\ kAddressSpaceTop \in Nat /\ kAddressSpaceTop <= AddressLimit - 1
  /\ PAGE_SIZE \in Nat \ {0}
  BY AddressSpaceAssumption

\* What is at the top or below it does not wrap around.
LEMMA NoWrap ==
  ASSUME NEW x \in Int, 0 <= x, x <= kAddressSpaceTop
  PROVE  x % AddressLimit = x
<1>1. x \in 0..(AddressLimit - 1)
  BY Limits
<1> QED
  BY <1>1, Limits, Remainder

\* Ceiling is the last address before the next area.
LEMMA CeilingIs ==
  ASSUME Types, AreasOK, NEW a \in AreasOf
  PROVE  /\ Ceiling(a) \in Nat /\ fAreas[a].high <= Ceiling(a) /\ Ceiling(a) <= kAddressSpaceTop
         /\ \A b \in AreasOf : fAreas[b].low > fAreas[a].low => fAreas[b].low > Ceiling(a)
         /\ \A x \in Nat : x <= kAddressSpaceTop
                           /\ (\A b \in AreasOf : fAreas[b].low > fAreas[a].low => fAreas[b].low > x)
                           => x <= Ceiling(a)
<1> DEFINE above == {fAreas[b].low : b \in {b \in AreasOf : fAreas[b].low > fAreas[a].low}}
<1>1. above \in SUBSET Nat
  BY AreaFacts
<1>2. Ceiling(a) = IF above = {} THEN kAddressSpaceTop ELSE Min(above) - 1
  BY DEF Ceiling
<1>a. /\ fAreas[a].low \in Nat /\ fAreas[a].high \in Nat
      /\ fAreas[a].low <= fAreas[a].high /\ fAreas[a].high <= kAddressSpaceTop
  BY AreaFacts
<1>3. CASE above = {}
  <2>1. Ceiling(a) = kAddressSpaceTop /\ \A b \in AreasOf : ~(fAreas[b].low > fAreas[a].low)
    BY <1>2, <1>3
  <2> HIDE DEF above
  <2> QED
    BY <1>a, <2>1, AddressSpaceAssumption
<1>4. CASE above # {}
  <2>1. Min(above) \in above /\ \A y \in above : Min(above) <= y
    BY <1>1, <1>4, MinIs
  <2>2. PICK b \in AreasOf : fAreas[b].low = Min(above) /\ fAreas[b].low > fAreas[a].low
    BY <2>1
  <2>3. /\ fAreas[b].low \in Nat /\ fAreas[b].high \in Nat
        /\ fAreas[b].low <= fAreas[b].high /\ fAreas[b].high <= kAddressSpaceTop
    BY AreaFacts
  <2>4. \A d \in AreasOf : fAreas[d].low > fAreas[a].low => fAreas[d].low >= fAreas[b].low
    BY <2>1, <2>2
  <2>5. Ceiling(a) = fAreas[b].low - 1
    BY <1>2, <1>4, <2>2
  <2> HIDE DEF above
  <2>6. fAreas[a].high < fAreas[b].low
    <3>1. Apart(a, b)
      BY <2>2, <1>a DEF AreasOK
    <3> QED
      BY <1>a, <2>2, <2>3, <3>1 DEF Apart
  <2>7. \A d \in AreasOf : fAreas[d].low \in Nat
    BY AreaFacts
  <2> QED
    BY <1>a, <2>2, <2>3, <2>4, <2>5, <2>6, <2>7, AddressSpaceAssumption
<1> QED
  BY <1>3, <1>4

\* Floor is the first address after the area before.
LEMMA FloorIs ==
  ASSUME Types, AreasOK, NEW a \in AreasOf
  PROVE  /\ Floor(a) \in Nat /\ Floor(a) <= fAreas[a].low
         /\ \A b \in AreasOf : fAreas[b].low < fAreas[a].low => fAreas[b].high < Floor(a)
<1> DEFINE below == {b \in AreasOf : fAreas[b].low < fAreas[a].low}
           before == CHOOSE b \in below : \A d \in below : fAreas[d].low <= fAreas[b].low
           lows == {fAreas[b].low : b \in below}
<1>a. /\ fAreas[a].low \in Nat /\ fAreas[a].high \in Nat
      /\ fAreas[a].low <= fAreas[a].high /\ fAreas[a].high <= kAddressSpaceTop
  BY AreaFacts
<1>1. Floor(a) = IF below = {} THEN 0 ELSE (fAreas[before].high + 1) % AddressLimit
  BY DEF Floor
<1>2. CASE below = {}
  BY <1>a, <1>1, <1>2, SMTT(40)
<1>3. CASE below # {}
  <2>1. lows \in SUBSET Int /\ lows # {} /\ \A y \in lows : y <= fAreas[a].low
    BY <1>a, <1>3, AreaFacts
  <2>2. PICK x \in lows : \A y \in lows : x >= y
    <3>1. fAreas[a].low \in Int
      BY <1>a
    <3> HIDE DEF lows
    <3> QED
      BY <2>1, <3>1, GreatestNumber
  <2>3. \E b \in below : \A d \in below : fAreas[d].low <= fAreas[b].low
    BY <2>2
  <2>4. before \in below /\ \A d \in below : fAreas[d].low <= fAreas[before].low
    BY <2>3
  <2> HIDE DEF before
  <2>5. before \in AreasOf /\ fAreas[before].low < fAreas[a].low
    BY <2>4
  <2>6. /\ fAreas[before].low \in Nat /\ fAreas[before].high \in Nat
        /\ fAreas[before].low <= fAreas[before].high /\ fAreas[before].high <= kAddressSpaceTop
    BY <2>5, AreaFacts
  <2>7. fAreas[before].high < fAreas[a].low
    <3>1. Apart(before, a)
      BY <2>5, <2>6, <1>a DEF AreasOK
    <3> QED
      BY <1>a, <2>5, <2>6, <3>1 DEF Apart
  <2>8. Floor(a) = fAreas[before].high + 1
    <3> DEFINE next == fAreas[before].high + 1
    <3>1. next \in Int /\ 0 <= next /\ next <= kAddressSpaceTop
      BY <1>a, <2>6, <2>7, Limits
    <3> HIDE DEF next
    <3>a. next % AddressLimit = next
      BY <3>1, NoWrap
    <3>2. (fAreas[before].high + 1) % AddressLimit = fAreas[before].high + 1
      BY <3>a DEF next
    <3> QED
      BY <1>1, <1>3, <3>2
  <2>9. ASSUME NEW b \in AreasOf, fAreas[b].low < fAreas[a].low
        PROVE  fAreas[b].high < Floor(a)
    <3>1. fAreas[b].low <= fAreas[before].low
      BY <2>4, <2>9
    <3>2. /\ fAreas[b].low \in Nat /\ fAreas[b].high \in Nat
          /\ fAreas[b].low <= fAreas[b].high
      BY AreaFacts
    <3>3. CASE b = before
      BY <2>6, <2>8, <3>3
    <3>4. CASE b # before
      <4>1. Apart(b, before)
        BY <2>5, <3>4 DEF AreasOK
      <4> QED
        BY <2>6, <2>8, <3>1, <3>2, <4>1 DEF Apart
    <3> QED
      BY <3>3, <3>4
  <2>10. Floor(a) \in Nat /\ Floor(a) <= fAreas[a].low
    BY <1>a, <2>6, <2>7, <2>8
  <2> QED
    BY <2>9, <2>10
<1> QED
  BY <1>2, <1>3

\* The room beside an area, as the search computes it.
LEMMA RoomIs ==
  ASSUME Types, AreasOK, NEW a \in AreasOf
  PROVE  /\ (Ceiling(a) - fAreas[a].high) % AddressLimit = Ceiling(a) - fAreas[a].high
         /\ (fAreas[a].low - Floor(a)) % AddressLimit = fAreas[a].low - Floor(a)
<1>a. /\ fAreas[a].low \in Nat /\ fAreas[a].high \in Nat
      /\ fAreas[a].low <= fAreas[a].high /\ fAreas[a].high <= kAddressSpaceTop
  BY AreaFacts
<1>c. Ceiling(a) \in Nat /\ fAreas[a].high <= Ceiling(a) /\ Ceiling(a) <= kAddressSpaceTop
  BY CeilingIs
<1>f. Floor(a) \in Nat /\ Floor(a) <= fAreas[a].low
  BY FloorIs
<1> DEFINE x == Ceiling(a) - fAreas[a].high
           y == fAreas[a].low - Floor(a)
<1>1. x \in Int /\ 0 <= x /\ x <= kAddressSpaceTop
  BY <1>a, <1>c, Limits
<1>2. y \in Int /\ 0 <= y /\ y <= kAddressSpaceTop
  BY <1>a, <1>f, Limits
<1> HIDE DEF x, y
<1>3. x % AddressLimit = x /\ y % AddressLimit = y
  BY <1>1, <1>2, NoWrap
<1> QED
  BY <1>3 DEF x, y

\* A range of addresses that touches no area.
Gap(base, size) ==
  /\ base \in Nat /\ base + size - 1 <= kAddressSpaceTop
  /\ \A b \in AreasOf : fAreas[b].high < base \/ base + size - 1 < fAreas[b].low

\* The range that the search from the bottom finds is free.
LEMMA FoundFromBottom ==
  ASSUME Types, AreasOK, NEW size \in Nat \ {0}, FindFreeRange(size, TRUE) # INVALID_PAGE
  PROVE  Gap(FindFreeRange(size, TRUE), size)
<1> DEFINE room == {a \in AreasOf : (fAreas[a].low - Floor(a)) % AddressLimit >= size}
           floors == {Floor(a) : a \in room}
<1> DEFINE base == FindFreeRange(size, TRUE)
<1>1. base = Min(floors) /\ room # {}
  BY DEF FindFreeRange
<1> HIDE DEF base
<1>2. floors \in SUBSET Nat /\ floors # {}
  BY <1>1, FloorIs
<1>3. Min(floors) \in floors
  <2> HIDE DEF floors
  <2> QED
    BY <1>2, MinIs
<1>4. PICK a \in room : base = Floor(a)
  BY <1>1, <1>3
<1>5. a \in AreasOf /\ fAreas[a].low - Floor(a) >= size
  <2>1. a \in AreasOf /\ (fAreas[a].low - Floor(a)) % AddressLimit >= size
    BY <1>4
  <2> QED
    BY <2>1, RoomIs
<1> HIDE DEF room, floors
<1>a. /\ fAreas[a].low \in Nat /\ fAreas[a].high \in Nat
      /\ fAreas[a].low <= fAreas[a].high /\ fAreas[a].high <= kAddressSpaceTop
  BY <1>5, AreaFacts
<1>6. /\ Floor(a) \in Nat
      /\ \A b \in AreasOf : fAreas[b].low < fAreas[a].low => fAreas[b].high < Floor(a)
  BY <1>5, FloorIs
<1>b. base \in Nat /\ fAreas[a].low >= base + size
  <2>1. base = Floor(a) /\ Floor(a) \in Nat
    BY <1>4, <1>6
  <2> QED
    BY <1>5, <1>a, <2>1
<1>7. ASSUME NEW b \in AreasOf
      PROVE  fAreas[b].high < base \/ base + size - 1 < fAreas[b].low
  <2>b. fAreas[b].low \in Nat
    BY AreaFacts
  <2>1. CASE fAreas[b].low < fAreas[a].low
    BY <1>4, <1>6, <2>1
  <2>2. CASE ~(fAreas[b].low < fAreas[a].low)
    BY <1>a, <1>b, <2>b, <2>2
  <2> QED
    BY <2>1, <2>2
<1>8. base + size - 1 <= kAddressSpaceTop
  BY <1>a, <1>b, Limits
<1>9. Gap(base, size)
  BY <1>b, <1>7, <1>8 DEF Gap
<1> QED
  BY <1>9 DEF base

\* Above some area there is room for every free range.
LEMMA RoomForFree ==
  ASSUME Types, AreasOK, NEW size \in Nat \ {0}, NEW low, Gap(low, size)
  PROVE  \E a \in AreasOf : /\ Ceiling(a) - fAreas[a].high >= size
                            /\ Ceiling(a) >= low + size - 1
<1>g. /\ low \in Nat /\ low + size - 1 <= kAddressSpaceTop
      /\ \A b \in AreasOf : fAreas[b].high < low \/ low + size - 1 < fAreas[b].low
  BY DEF Gap
<1> DEFINE lows == {fAreas[b].low : b \in {b \in AreasOf : fAreas[b].low <= low}}
<1>1. lows \in SUBSET Int /\ \A y \in lows : y <= low
  BY <1>g, AreaFacts
<1>2. lows # {}
  <2>1. PICK b \in AreasOf : fAreas[b].low = 0
    BY DEF AreasOK
  <2>2. fAreas[b].low <= low
    BY <1>g, <2>1
  <2>3. fAreas[b].low \in lows
    BY <2>2
  <2> QED
    BY <2>3
<1>3. PICK x \in lows : \A y \in lows : x >= y
  <2>1. low \in Int
    BY <1>g
  <2> HIDE DEF lows
  <2> QED
    BY <1>1, <1>2, <2>1, GreatestNumber
<1>4. PICK a \in AreasOf : fAreas[a].low <= low
                           /\ \A b \in AreasOf : fAreas[b].low <= low => fAreas[b].low <= fAreas[a].low
  BY <1>3
<1> HIDE DEF lows
<1>a. /\ fAreas[a].low \in Nat /\ fAreas[a].high \in Nat
      /\ fAreas[a].low <= fAreas[a].high /\ fAreas[a].high <= kAddressSpaceTop
  BY <1>4, AreaFacts
<1>5. fAreas[a].high < low
  <2>1. fAreas[a].high < low \/ low + size - 1 < fAreas[a].low
    BY <1>4, <1>g
  <2> QED
    BY <1>4, <1>a, <1>g, <2>1
<1>6. ASSUME NEW b \in AreasOf, fAreas[b].low > fAreas[a].low
      PROVE  fAreas[b].low > low + size - 1
  <2>1. /\ fAreas[b].low \in Nat /\ fAreas[b].high \in Nat /\ fAreas[b].low <= fAreas[b].high
    BY AreaFacts
  <2>2. ~(fAreas[b].low <= low)
    BY <1>4, <1>6, <1>a, <1>g, <2>1
  <2>3. fAreas[b].high < low \/ low + size - 1 < fAreas[b].low
    BY <1>g
  <2> QED
    BY <1>g, <2>1, <2>2, <2>3
<1>7. low + size - 1 \in Nat
  BY <1>g
<1>8. Ceiling(a) \in Nat /\ low + size - 1 <= Ceiling(a)
  BY <1>4, <1>6, <1>7, <1>g, CeilingIs
<1>9. Ceiling(a) - fAreas[a].high >= size
  BY <1>5, <1>8, <1>a, <1>g
<1> QED
  BY <1>4, <1>8, <1>9

\* The range that the search from the top finds is free, and no other is higher.
LEMMA FoundFromTop ==
  ASSUME Types, AreasOK, NEW size \in Nat \ {0}
  PROVE  /\ FindFreeRange(size, FALSE) # INVALID_PAGE => Gap(FindFreeRange(size, FALSE), size)
         /\ \A low : Gap(low, size) => low <= FindFreeRange(size, FALSE)
         /\ FindFreeRange(size, FALSE) = INVALID_PAGE => \A low : ~Gap(low, size)
<1> DEFINE room == {a \in AreasOf : (Ceiling(a) - fAreas[a].high) % AddressLimit >= size}
           ceilings == {Ceiling(a) : a \in room}
           base == FindFreeRange(size, FALSE)
<1>1. base = IF room = {} THEN INVALID_PAGE ELSE (Max(ceilings) + 1 - size) % AddressLimit
  BY DEF FindFreeRange
<1> HIDE DEF base
<1>2. \A a : a \in room <=> a \in AreasOf /\ Ceiling(a) - fAreas[a].high >= size
  BY RoomIs
<1>3. ceilings \in SUBSET Int /\ \A y \in ceilings : y <= kAddressSpaceTop
  BY CeilingIs
<1>4. kAddressSpaceTop \in Int
  BY Limits
<1>5. CASE room = {}
  <2>1. ASSUME NEW low, Gap(low, size)
        PROVE  FALSE
    BY <1>2, <1>5, <2>1, RoomForFree
  <2>2. base = INVALID_PAGE
    BY <1>1, <1>5
  <2> QED
    BY <2>1, <2>2 DEF base
<1>6. CASE room # {}
  <2>1. ceilings # {}
    BY <1>6
  <2>2. Max(ceilings) \in ceilings /\ \A y \in ceilings : Max(ceilings) >= y
    <3> HIDE DEF ceilings
    <3> QED
      BY <1>3, <1>4, <2>1, MaxIs
  <2>3. PICK a \in room : Max(ceilings) = Ceiling(a)
    BY <2>2
  <2>4. a \in AreasOf /\ Ceiling(a) - fAreas[a].high >= size
    BY <1>2, <2>3
  <2>5. \A b \in room : Ceiling(a) >= Ceiling(b)
    BY <2>2, <2>3
  <2>6. base = (Ceiling(a) + 1 - size) % AddressLimit
    BY <1>1, <1>6, <2>3
  <2> HIDE DEF room, ceilings
  <2>a. /\ fAreas[a].low \in Nat /\ fAreas[a].high \in Nat
        /\ fAreas[a].low <= fAreas[a].high /\ fAreas[a].high <= kAddressSpaceTop
    BY <2>4, AreaFacts
  <2>c. /\ Ceiling(a) \in Nat /\ Ceiling(a) <= kAddressSpaceTop
        /\ \A b \in AreasOf : fAreas[b].low > fAreas[a].low => fAreas[b].low > Ceiling(a)
    BY <2>4, CeilingIs
  <2>7. base = Ceiling(a) + 1 - size /\ base \in Nat
    <3> DEFINE x == Ceiling(a) + 1 - size
    <3>1. x \in Int /\ 0 <= x /\ x <= kAddressSpaceTop
      BY <2>4, <2>a, <2>c, Limits
    <3>2. base = x % AddressLimit
      BY <2>6
    <3> HIDE DEF x
    <3>3. base = x
      BY <3>1, <3>2, NoWrap
    <3> QED
      BY <3>1, <3>3 DEF x
  <2>8. ASSUME NEW b \in AreasOf
        PROVE  fAreas[b].high < base \/ base + size - 1 < fAreas[b].low
    <3>1. /\ fAreas[b].low \in Nat /\ fAreas[b].high \in Nat /\ fAreas[b].low <= fAreas[b].high
      BY AreaFacts
    <3>2. CASE fAreas[b].low > fAreas[a].low
      BY <2>7, <2>c, <3>1, <3>2
    <3>3. CASE b = a
      BY <2>4, <2>7, <2>a, <2>c, <3>3
    <3>4. CASE ~(fAreas[b].low > fAreas[a].low) /\ b # a
      <4>1. Apart(a, b)
        BY <2>4, <3>4 DEF AreasOK
      <4>2. fAreas[b].high < fAreas[a].high
        BY <2>a, <3>1, <3>4, <4>1 DEF Apart
      <4> QED
        BY <2>4, <2>7, <2>a, <2>c, <3>1, <4>2
    <3> QED
      BY <3>2, <3>3, <3>4
  <2>9. Gap(base, size)
    BY <2>7, <2>8, <2>c, Limits DEF Gap
  <2>10. ASSUME NEW low, Gap(low, size)
         PROVE  low <= base
    <3>1. PICK b \in AreasOf : Ceiling(b) - fAreas[b].high >= size /\ Ceiling(b) >= low + size - 1
      BY <2>10, RoomForFree
    <3>2. Ceiling(a) >= Ceiling(b) /\ Ceiling(b) \in Nat
      BY <1>2, <2>5, <3>1, CeilingIs
    <3>3. low \in Nat
      BY <2>10 DEF Gap
    <3> QED
      BY <2>7, <2>c, <3>1, <3>2, <3>3
  <2>11. base # INVALID_PAGE
    BY <2>7 DEF INVALID_PAGE
  <2> QED
    BY <2>9, <2>10, <2>11 DEF base
<1> QED
  BY <1>5, <1>6

\* IsRangeFree is asked about a range below the top.
LEMMA RangeFree ==
  ASSUME Types, AreasOK, NEW low \in Nat, NEW size \in Nat \ {0}, low + size - 1 <= kAddressSpaceTop
  PROVE  IsRangeFree(low, low + size - 1) <=> Gap(low, size)
<1>1. \A b \in AreasOf : Overlaps(fAreas[b], low, low + size - 1)
                         <=> ~(fAreas[b].high < low \/ low + size - 1 < fAreas[b].low)
  BY AreaFacts DEF Overlaps
<1> QED
  BY <1>1 DEF IsRangeFree, Gap

LEMMA SearchIsHighest ==
  ASSUME IInv, ~resized, NEW size \in Sizes
  PROVE  FindFreeRange(size, FALSE) = Max(FreeBases(size) \cup {INVALID_PAGE})
<1> DEFINE base == FindFreeRange(size, FALSE)
           S == FreeBases(size) \cup {INVALID_PAGE}
<1>1. Types /\ AreasOK /\ size \in Nat \ {0}
  BY AddressSpaceAssumption DEF IInv
<1>2. \A low : low \in FreeBases(size) <=> Gap(low, size)
  <2>1. ASSUME NEW low, Gap(low, size)
        PROVE  low \in FreeBases(size)
    <3>1. low \in Nat /\ low + size - 1 <= kAddressSpaceTop
      BY <2>1 DEF Gap
    <3>2. low \in 0..(kAddressSpaceTop + 1 - size)
      BY <1>1, <3>1, Limits
    <3> QED
      BY <1>1, <2>1, <3>1, <3>2, RangeFree DEF FreeBases
  <2>2. ASSUME NEW low \in FreeBases(size)
        PROVE  Gap(low, size)
    <3>1. low \in 0..(kAddressSpaceTop + 1 - size) /\ IsRangeFree(low, low + size - 1)
      BY <2>2 DEF FreeBases
    <3>2. low \in Nat /\ low + size - 1 <= kAddressSpaceTop
      BY <1>1, <3>1, Limits
    <3> QED
      BY <1>1, <3>1, <3>2, RangeFree
  <2> QED
    BY <2>1, <2>2
<1>3. base \in S /\ base \in Int
  <2>1. CASE base = INVALID_PAGE
    <3>1. INVALID_PAGE \in S /\ INVALID_PAGE \in Int
      BY DEF INVALID_PAGE
    <3> HIDE DEF base, S
    <3> QED
      BY <2>1, <3>1
  <2>2. CASE base # INVALID_PAGE
    <3>1. Gap(base, size)
      BY <1>1, <2>2, FoundFromTop
    <3>2. base \in FreeBases(size)
      BY <1>2, <3>1
    <3>3. base \in S
      BY <3>2
    <3> HIDE DEF base, S
    <3> QED
      BY <3>1, <3>3 DEF Gap
  <2> HIDE DEF base, S
  <2> QED
    BY <2>1, <2>2
<1>4. \A y \in S : y \in Int /\ base >= y
  <2>1. ASSUME NEW y \in FreeBases(size)
        PROVE  y \in Int /\ base >= y
    <3>1. Gap(y, size)
      BY <1>2, <2>1
    <3>2. y <= base /\ y \in Nat
      BY <1>1, <3>1, FoundFromTop DEF Gap
    <3> HIDE DEF base
    <3> QED
      BY <1>3, <3>2
  <2>2. base >= INVALID_PAGE
    <3>1. base = INVALID_PAGE \/ Gap(base, size)
      BY <1>1, FoundFromTop
    <3> HIDE DEF base
    <3> QED
      BY <3>1 DEF INVALID_PAGE, Gap
  <2> HIDE DEF base
  <2> QED
    BY <2>1, <2>2 DEF INVALID_PAGE
<1>5. \A x \in S : (\A y \in S : x >= y) => x = base
  <2> HIDE DEF base, S
  <2> QED
    BY <1>3, <1>4
<1>6. Max(S) = base
  <2> HIDE DEF base, S
  <2>1. \E x \in S : \A y \in S : x >= y
    BY <1>3, <1>4
  <2>2. Max(S) \in S /\ \A y \in S : Max(S) >= y
    BY <2>1 DEF Max
  <2> QED
    BY <1>5, <2>2
<1> QED
  BY <1>6

-----------------------------------------------------------------------------
(* A step of one fault. *)

LEMMA NoFaultIs ==
  /\ NoFault \in FaultType
  /\ NoFault.at = "idle" /\ ~NoFault.changed
  BY AddressSpaceAssumption DEF NoFault, FaultType, Offsets

LEMMA AreaTypes ==
  ASSUME Types, NEW a \in AreasOf
  PROVE  /\ fAreas[a].low \in Nat /\ fAreas[a].high \in Nat
         /\ fAreas[a].low \in Addresses /\ fAreas[a].high \in Addresses
         /\ fAreas[a].protection \in SUBSET Accesses
         /\ fAreas[a].cache \in Mappable \cup {None}
         /\ fAreas[a].offset = 0
         /\ fAreas[a].wired \in BOOLEAN
<1>1. fAreas[a] \in AreaType
  BY DEF Types
<1>2. fAreas[a].low \in Addresses /\ fAreas[a].high \in Addresses
  BY <1>1 DEF AreaType
<1>3. fAreas[a].low \in Nat /\ fAreas[a].high \in Nat
  BY <1>2 DEF Addresses
<1> QED
  BY <1>1, <1>2, <1>3 DEF AreaType

\* The other faults do not see the step.
LEMMA OtherFaults ==
  ASSUME IInv, NEW t \in Threads, NEW g \in FaultType, fault' = [fault EXCEPT ![t] = g], fAreas' = fAreas
  PROVE  /\ fault' \in [Threads -> FaultType] /\ fault'[t] = g
         /\ \A u \in Threads : u # t => fault'[u] = fault[u] /\ FaultOK(u)'
<1>1. fault \in [Threads -> FaultType]
  BY DEF IInv, Types
<1>2. fault' \in [Threads -> FaultType] /\ fault'[t] = g
  BY <1>1
<1>3. ASSUME NEW u \in Threads, u # t
      PROVE  fault'[u] = fault[u] /\ FaultOK(u)'
  <2>1. fault'[u] = fault[u]
    BY <1>1, <1>3
  <2>2. FaultOK(u)
    BY DEF IInv
  <2>3. Containing(fault[u].va)' = Containing(fault[u].va)
    BY <2>1 DEF Containing, AreasOf
  <2> QED
    BY <2>1, <2>2, <2>3 DEF FaultOK
<1> QED
  BY <1>2, <1>3

\* A fault that has not seen a change, and does not, leaves Seen as it is.
LEMMA SameSeen ==
  ASSUME IInv, NEW t \in Threads, NEW g \in FaultType, fault' = [fault EXCEPT ![t] = g],
         ~fault[t].changed, ~g.changed, leakedReads' = leakedReads
  PROVE  LeakOK'
<1>1. fault \in [Threads -> FaultType]
  BY DEF IInv, Types
<1>2. \A u \in Threads : fault'[u].changed <=> fault[u].changed
  BY <1>1
<1>3. Seen' = Seen
  BY <1>2 DEF Seen
<1> QED
  BY <1>3 DEF IInv, LeakOK

LEMMA FaultLookupOK ==
  ASSUME IInv, NEW t \in Threads, NEW va \in PageAddresses, NEW access \in Accesses,
         FaultLookup(t, va, access)
  PROVE  IInv'
<1>1. Types
  BY DEF IInv
<1>2. fault[t] = NoFault
  BY DEF IInv, FaultOK, FaultLookup, Idle
<1>3. UNCHANGED <<fAreas, fPhysicalMap, copied, leakedReads, resized>>
  BY DEF FaultLookup
<1>4. CASE Return(t)
  <2>1. fault' = [fault EXCEPT ![t] = NoFault]
    BY <1>4 DEF Return
  <2>2. fault' = fault
    <3>1. fault \in [Threads -> FaultType]
      BY <1>1 DEF Types
    <3> QED
      BY <1>2, <2>1, <3>1
  <2> QED
    BY <1>3, <2>2 DEF IInv, Types, AreasOf, FaultOK, Containing, LeakOK, Seen, WriteOK, AreasOK, Apart,
                      MapOK, MappedRight
<1>5. CASE ~Return(t)
  <2>1. PICK a \in Containing(va) :
          /\ access \in fAreas[a].protection /\ fAreas[a].cache # None
          /\ fault' = [fault EXCEPT ![t] =
               [at |-> "get page", va |-> va, area |-> a, cache |-> fAreas[a].cache,
                offset |-> va - fAreas[a].low + fAreas[a].offset, write |-> access \in Writes,
                protection |-> fAreas[a].protection, page |-> None, changed |-> FALSE]]
    BY <1>5, Zenon DEF FaultLookup
  <2>2. a \in AreasOf /\ fAreas[a].low <= va /\ va <= fAreas[a].high
    BY DEF Containing
  <2>3. /\ fAreas[a].low \in Nat /\ fAreas[a].high \in Nat /\ fAreas[a].offset = 0
        /\ fAreas[a].cache \in Mappable /\ a \in AreaIds /\ fAreas[a].protection \in SUBSET Accesses
    BY <1>1, <2>1, <2>2, AreaTypes DEF Types
  <2>4. va \in Nat /\ va <= kAddressSpaceTop
    BY Limits DEF PageAddresses
  <2>5. va - fAreas[a].low \in Offsets
    BY <2>2, <2>3, <2>4, Limits DEF Offsets
  <2>w. PICK write \in BOOLEAN : write = (access \in Writes)
    <3>1. (access \in Writes) \in BOOLEAN
      OBVIOUS
    <3> QED
      BY <3>1, Zenon
  <2>o. PICK offset \in Offsets : /\ offset = va - fAreas[a].low
                                  /\ offset = va - fAreas[a].low + fAreas[a].offset
    BY <2>3, <2>4, <2>5
  <2>6. PICK g : g = [at |-> "get page", va |-> va, area |-> a, cache |-> fAreas[a].cache,
                      offset |-> offset, write |-> write,
                      protection |-> fAreas[a].protection, page |-> None, changed |-> FALSE]
    OBVIOUS
  <2>7. fault' = [fault EXCEPT ![t] = g]
    BY <2>1, <2>w, <2>o, <2>6
  <2>8. g \in FaultType
    <3>1. fAreas[a].cache \in Mappable \cup {None} /\ a \in AreaIds \cup {None}
      BY <2>3
    <3>2. /\ "get page" \in {"idle", "get page", "map"} /\ FALSE \in BOOLEAN
          /\ None \in {None} \cup (Caches \X Offsets)
      OBVIOUS
    <3> QED
      BY <2>3, <2>4, <2>6, <3>1, <3>2 DEF FaultType
  <2>9. /\ g.at = "get page" /\ g.va = va /\ g.area = a /\ g.cache = fAreas[a].cache
        /\ g.offset = va - fAreas[a].low /\ g.protection = fAreas[a].protection /\ ~g.changed
    BY <2>o, <2>6
  <2>10. /\ fault' \in [Threads -> FaultType] /\ fault'[t] = g
         /\ \A u \in Threads : u # t => fault'[u] = fault[u] /\ FaultOK(u)'
    BY <1>3, <2>7, <2>8, OtherFaults
  <2>11. FaultOK(t)'
    <3>1. a \in Containing(va)'
      BY <1>3, <2>2 DEF Containing, AreasOf
    <3>2. Containing(fault[t].va)' = Containing(va)'
      BY <2>9, <2>10 DEF Containing
    <3> QED
      BY <1>3, <2>3, <2>9, <2>10, <3>1, <3>2 DEF FaultOK
  <2>12. LeakOK'
    BY <1>2, <1>3, <2>7, <2>8, <2>9, NoFaultIs, SameSeen
  <2> QED
    BY <1>3, <2>10, <2>11, <2>12 DEF IInv, Types, AreasOf, WriteOK, AreasOK, Apart, Containing, MapOK, MappedRight
<1> QED
  BY <1>4, <1>5

LEMMA GetPageOK ==
  ASSUME IInv, NEW t \in Threads, GetPage(t)
  PROVE  IInv'
<1>1. Types /\ FaultOK(t)
  BY DEF IInv
<1>2. UNCHANGED <<fAreas, fPhysicalMap, leakedReads, resized>> /\ fault[t].at = "get page"
  BY DEF GetPage
<1>3. fault[t] \in FaultType
  BY <1>1 DEF Types
<1>4. fault[t].cache \in Mappable /\ fault[t].va \in PageAddresses /\ fault[t].offset \in Offsets
  BY <1>1, <1>2, <1>3 DEF FaultOK, FaultType
<1> DEFINE own == <<fault[t].cache, fault[t].offset>>
           shared == fault[t].cache \in Copies /\ own \notin copied /\ ~fault[t].write
<1>5. PICK page : page = IF shared THEN <<Source[fault[t].cache], fault[t].offset>> ELSE own
  OBVIOUS
<1>6. /\ fault' = [fault EXCEPT ![t].at = "map", ![t].page = page]
      /\ copied' = IF fault[t].cache \in Copies /\ ~shared THEN copied \cup {own} ELSE copied
  BY <1>5, Zenon DEF GetPage
<1>7. /\ \/ page = <<fault[t].cache, fault[t].offset>>
         \/ /\ fault[t].cache \in Copies /\ ~fault[t].write
            /\ page = <<Source[fault[t].cache], fault[t].offset>>
      /\ page \in Caches \X Offsets
  <2>1. fault[t].cache \in Caches /\ (fault[t].cache \in Copies => Source[fault[t].cache] \in Caches)
    BY <1>4, AddressSpaceAssumption DEF Caches
  <2> QED
    BY <1>4, <1>5, <2>1
<1>8. copied' \subseteq Copies \X Offsets
  BY <1>1, <1>4, <1>6 DEF Types
<1>9. PICK g : g = [fault[t] EXCEPT !.at = "map", !.page = page]
  OBVIOUS
<1>10. fault' = [fault EXCEPT ![t] = g]
  BY <1>1, <1>6, <1>9 DEF Types
<1>11. /\ g \in FaultType
       /\ g.at = "map" /\ g.page = page /\ g.va = fault[t].va /\ g.area = fault[t].area
       /\ g.cache = fault[t].cache /\ g.offset = fault[t].offset /\ g.write = fault[t].write
       /\ g.protection = fault[t].protection /\ g.changed = fault[t].changed
  BY <1>3, <1>7, <1>9 DEF FaultType
<1> HIDE DEF own, shared
<1>12. /\ fault' \in [Threads -> FaultType] /\ fault'[t] = g
       /\ \A u \in Threads : u # t => fault'[u] = fault[u] /\ FaultOK(u)'
  BY <1>2, <1>10, <1>11, OtherFaults
<1>13. FaultOK(t)'
  <2>1. Containing(fault[t].va)' = Containing(fault[t].va)
    BY <1>2, <1>11, <1>12 DEF Containing, AreasOf
  <2> QED
    BY <1>1, <1>2, <1>7, <1>11, <1>12, <2>1 DEF FaultOK
<1>14. LeakOK'
  <2>1. Seen' = Seen
    <3>1. \A u \in Threads : fault'[u].changed <=> fault[u].changed
      BY <1>11, <1>12
    <3> QED
      BY <3>1 DEF Seen
  <2> QED
    BY <1>2, <2>1 DEF LeakOK, IInv
<1> QED
  BY <1>2, <1>8, <1>12, <1>13, <1>14, ZenonT(60)
     DEF IInv, Types, AreasOf, WriteOK, AreasOK, Apart, Containing, MapOK, MappedRight

\* What is mapped of a page.
LEMMA MappingIs ==
  ASSUME NEW page \in (Caches \cup {None}) \X Offsets, NEW protection
  PROVE  /\ Mapping(page, protection) \in EntryType
         /\ Mapping(page, protection).page = page
         /\ Mapping(page, protection).writable <=> protection \cap Writes # {}
<1>1. PICK w \in BOOLEAN : w = (protection \cap Writes # {})
  <2>1. (protection \cap Writes # {}) \in BOOLEAN
    OBVIOUS
  <2> QED
    BY <2>1, Zenon
<1>2. Mapping(page, protection) = [page |-> page, writable |-> w]
  BY <1>1 DEF Mapping
<1>3. PICK entry : entry = [page |-> page, writable |-> w]
  OBVIOUS
<1>4. entry \in EntryType /\ entry.page = page /\ entry.writable = w
  BY <1>1, <1>3 DEF EntryType
<1>5. entry.writable <=> protection \cap Writes # {}
  BY <1>1, <1>4, Zenon
<1> QED
  BY <1>2, <1>3, <1>4, <1>5, Zenon

LEMMA FaultMapOK ==
  ASSUME IInv, NEW t \in Threads, FaultMap(t)
  PROVE  IInv'
<1>1. Types /\ FaultOK(t)
  BY DEF IInv
<1>2. /\ UNCHANGED <<fAreas, copied, leakedReads, resized>>
      /\ fault[t].at = "map" /\ ~fault[t].changed
      /\ fault' = [fault EXCEPT ![t] = NoFault]
  BY DEF FaultMap, Return
<1>3. fault[t] \in FaultType
  BY <1>1 DEF Types
<1>4. fault[t].cache \in Mappable /\ fault[t].va \in PageAddresses /\ fault[t].offset \in Offsets
  BY <1>1, <1>2, <1>3 DEF FaultOK, FaultType
<1> DEFINE area == fAreas[fault[t].area]
           va == fault[t].va
<1>5. /\ fault[t].area \in Containing(va)
      /\ area.cache = fault[t].cache
      /\ area.protection = fault[t].protection
      /\ fault[t].offset = va - area.low
  BY <1>1, <1>2 DEF FaultOK
<1>6. \/ fault[t].page = <<fault[t].cache, fault[t].offset>>
      \/ /\ fault[t].cache \in Copies /\ ~fault[t].write
         /\ fault[t].page = <<Source[fault[t].cache], fault[t].offset>>
  BY <1>1, <1>2 DEF FaultOK
<1>7. fault[t].page \in (Caches \cup {None}) \X Offsets
  <2>1. fault[t].cache \in Caches /\ (fault[t].cache \in Copies => Source[fault[t].cache] \in Caches)
    BY <1>4, AddressSpaceAssumption DEF Caches
  <2> QED
    BY <1>4, <1>6, <2>1
<1>8. PICK protection : /\ protection = IF fault[t].cache \in Copies /\ ~fault[t].write
                                          THEN fault[t].protection \ Writes ELSE fault[t].protection
                        /\ fPhysicalMap' = [fPhysicalMap EXCEPT ![va] = Mapping(fault[t].page, protection)]
  BY DEF FaultMap
<1>9. PICK entry : entry = Mapping(fault[t].page, protection)
  OBVIOUS
<1>10. /\ entry \in EntryType /\ entry.page = fault[t].page
       /\ entry.writable <=> protection \cap Writes # {}
  BY <1>7, <1>9, MappingIs
<1>11. /\ fPhysicalMap' \in [PageAddresses -> EntryType] /\ fPhysicalMap'[va] = entry
       /\ \A x \in PageAddresses : x # va => fPhysicalMap'[x] = fPhysicalMap[x]
  BY <1>1, <1>4, <1>8, <1>9, <1>10 DEF Types
<1>12. entry.writable => /\ fault[t].page = <<fault[t].cache, fault[t].offset>>
                         /\ fault[t].protection \cap Writes # {}
  BY <1>6, <1>8, <1>10
<1>13. WriteOK'
  <2>1. ASSUME NEW x \in PageAddresses, fPhysicalMap'[x].writable
        PROVE  \E c \in Mappable \cup {None}, o \in Offsets : fPhysicalMap'[x].page = <<c, o>>
    <3>1. CASE x = va
      BY <1>4, <1>10, <1>11, <1>12, <2>1, <3>1
    <3>2. CASE x # va
      BY <1>11, <2>1, <3>2 DEF IInv, WriteOK
    <3> QED
      BY <3>1, <3>2
  <2> QED
    BY <2>1 DEF WriteOK
<1>14. ASSUME ~resized
       PROVE  MapOK'
  <2>1. ASSUME NEW x \in PageAddresses, fPhysicalMap'[x] # Unmapped
        PROVE  \E a \in Containing(x)' : MappedRight(a, x)'
    <3>1. Containing(x)' = Containing(x)
      BY <1>2 DEF Containing, AreasOf
    <3>2. CASE x = va
      <4>1. PICK a : a = fault[t].area
        OBVIOUS
      <4>2. MappedRight(a, x)'
        BY <1>2, <1>5, <1>6, <1>10, <1>11, <1>12, <3>2, <4>1 DEF MappedRight
      <4> QED
        BY <1>5, <3>1, <3>2, <4>1, <4>2
    <3>3. CASE x # va
      <4>1. PICK a \in Containing(x) : MappedRight(a, x)
        BY <1>11, <1>14, <2>1, <3>3 DEF IInv, MapOK
      <4>2. MappedRight(a, x)'
        BY <1>2, <1>11, <3>3, <4>1 DEF MappedRight
      <4> QED
        BY <3>1, <4>2
    <3> QED
      BY <3>2, <3>3
  <2> QED
    BY <2>1, Zenon DEF MapOK, Unmapped
<1>15. /\ fault' \in [Threads -> FaultType] /\ fault'[t] = NoFault
       /\ \A u \in Threads : u # t => fault'[u] = fault[u] /\ FaultOK(u)'
  BY <1>2, NoFaultIs, OtherFaults
<1>16. FaultOK(t)'
  BY <1>15, NoFaultIs DEF FaultOK
<1>17. LeakOK'
  BY <1>2, NoFaultIs, SameSeen
<1>18. Types' /\ (~resized => AreasOK')
  BY <1>1, <1>2, <1>11, <1>15 DEF IInv, Types, AreasOf, AreasOK, Apart
<1> QED
  BY <1>2, <1>13, <1>14, <1>15, <1>16, <1>17, <1>18 DEF IInv

LEMMA FaultRecheckOK ==
  ASSUME IInv, NEW t \in Threads, FaultRecheck(t)
  PROVE  IInv'
<1>1. Types /\ FaultOK(t)
  BY DEF IInv
<1>2. /\ UNCHANGED <<fAreas, fPhysicalMap, copied, resized>>
      /\ fault[t].at = "map" /\ fault[t].changed
      /\ fault' = [fault EXCEPT ![t] = NoFault]
      /\ leakedReads' = leakedReads \/ leakedReads' = leakedReads + 1
  <2>1. leakedReads \in Nat
    BY <1>1 DEF Types
  <2> QED
    BY <2>1 DEF FaultRecheck, Return
<1>3. /\ fault' \in [Threads -> FaultType] /\ fault'[t] = NoFault
      /\ \A u \in Threads : u # t => fault'[u] = fault[u] /\ FaultOK(u)'
  BY <1>2, NoFaultIs, OtherFaults
<1>4. FaultOK(t)'
  BY <1>3, NoFaultIs DEF FaultOK
<1>5. leakedReads \in Nat
  BY <1>1 DEF Types
<1>6. LeakOK'
  <2>1. t \in Seen /\ Seen' = Seen \ {t}
    BY <1>2, <1>3, NoFaultIs DEF Seen
  <2>2. IsFiniteSet(Seen)
    <3>1. Seen \subseteq Threads /\ IsFiniteSet(Threads)
      BY AddressSpaceAssumption DEF Seen
    <3> QED
      BY <3>1, FS_Subset
  <2>3. Cardinality(Seen \ {t}) = Cardinality(Seen) - 1 /\ Cardinality(Seen) \in Nat
    BY <2>1, <2>2, CountOut
  <2>4. Cardinality(Threads) \in Nat
    BY AddressSpaceAssumption, FS_CardinalityType
  <2>5. Cardinality(Seen)' = Cardinality(Seen) - 1
    BY <2>1, <2>3
  <2>6. leakedReads + Cardinality(Seen) <= Cardinality(Threads)
    BY DEF IInv, LeakOK
  <2> QED
    BY <1>2, <1>5, <2>3, <2>4, <2>5, <2>6 DEF LeakOK
<1> QED
  BY <1>1, <1>2, <1>3, <1>4, <1>5, <1>6
     DEF IInv, Types, AreasOf, WriteOK, AreasOK, Apart, Containing, MapOK, MappedRight

-----------------------------------------------------------------------------
(* A step of an operation that changes the areas. *)

\* Every fault in progress sees the change.
LEMMA ChangeSeen ==
  ASSUME IInv, CanLockWrite, CountChange, leakedReads' = leakedReads
  PROVE  /\ fault' \in [Threads -> FaultType]
         /\ \A t \in Threads : FaultOK(t)'
         /\ LeakOK'
<1>1. ASSUME NEW t \in Threads
      PROVE  fault'[t] \in FaultType /\ FaultOK(t)'
  <2>1. fault[t] \in FaultType /\ FaultOK(t)
    BY DEF IInv, Types
  <2>2. CASE Idle(t)
    <3>1. fault'[t] = fault[t]
      BY <2>2 DEF CountChange
    <3>2. fault[t] = NoFault
      BY <2>1, <2>2 DEF FaultOK, Idle
    <3> QED
      BY <2>1, <3>1, <3>2, NoFaultIs DEF FaultOK
  <2>3. CASE ~Idle(t)
    <3>1. fault'[t] = [fault[t] EXCEPT !.changed = TRUE]
      BY <2>3 DEF CountChange
    <3>2. /\ fault'[t] \in FaultType /\ fault'[t].changed
          /\ fault'[t].at = fault[t].at /\ fault'[t].va = fault[t].va
          /\ fault'[t].cache = fault[t].cache /\ fault'[t].offset = fault[t].offset
          /\ fault'[t].write = fault[t].write /\ fault'[t].page = fault[t].page
      BY <2>1, <3>1 DEF FaultType
    <3> QED
      BY <2>1, <2>3, <3>2 DEF FaultOK, Idle
  <2> QED
    BY <2>2, <2>3
<1>2. fault' \in [Threads -> FaultType]
  BY <1>1 DEF CountChange
<1>3. LeakOK'
  <2>1. PICK S : S = Seen'
    OBVIOUS
  <2>2. S \subseteq Threads
    BY <2>1 DEF Seen
  <2>3. Cardinality(S) <= Cardinality(Threads) /\ Cardinality(S) \in Nat
    BY <2>2, AddressSpaceAssumption, FS_Subset, FS_CardinalityType
  <2>4. Cardinality(Threads) \in Nat
    BY AddressSpaceAssumption, FS_CardinalityType
  <2>5. leakedReads' = 0 /\ Cardinality(Seen)' = Cardinality(S)
    BY <2>1 DEF CanLockWrite
  <2> QED
    BY <2>3, <2>4, <2>5 DEF LeakOK
<1> QED
  BY <1>1, <1>2, <1>3

\* Whatever the areas are, the search returns an address or none.
LEMMA FoundTyped ==
  ASSUME Types, NEW size \in Nat \ {0}, NEW fromBottom \in BOOLEAN
  PROVE  FindFreeRange(size, fromBottom) \in Addresses \cup {INVALID_PAGE}
<1>1. ASSUME NEW a \in AreasOf
      PROVE  Floor(a) \in Addresses /\ Ceiling(a) \in Int /\ Ceiling(a) <= AddressLimit
  <2> DEFINE above == {fAreas[b].low : b \in {b \in AreasOf : fAreas[b].low > fAreas[a].low}}
             below == {b \in AreasOf : fAreas[b].low < fAreas[a].low}
             before == CHOOSE b \in below : \A d \in below : fAreas[d].low <= fAreas[b].low
             lows == {fAreas[b].low : b \in below}
  <2>1. Ceiling(a) = IF above = {} THEN kAddressSpaceTop ELSE Min(above) - 1
    BY DEF Ceiling
  <2>2. above \in SUBSET Nat /\ \A y \in above : y < AddressLimit
    BY AreaTypes, Limits DEF Addresses
  <2>3. Ceiling(a) \in Int /\ Ceiling(a) <= AddressLimit
    <3> HIDE DEF above
    <3>1. CASE above = {}
      BY <2>1, <3>1, Limits
    <3>2. CASE above # {}
      <4>1. Min(above) \in above
        BY <2>2, <3>2, MinIs
      <4>2. Min(above) \in Nat /\ Min(above) < AddressLimit
        BY <2>2, <4>1
      <4> QED
        BY <2>1, <3>2, <4>2, Limits
    <3> QED
      BY <3>1, <3>2
  <2>4. Floor(a) = IF below = {} THEN 0 ELSE (fAreas[before].high + 1) % AddressLimit
    BY DEF Floor
  <2>5. CASE below = {}
    BY <2>3, <2>4, <2>5, Limits DEF Addresses
  <2>6. CASE below # {}
    <3>1. lows \in SUBSET Int /\ lows # {} /\ \A y \in lows : y <= fAreas[a].low
      BY <2>6, AreaTypes
    <3>2. PICK x \in lows : \A y \in lows : x >= y
      <4>1. fAreas[a].low \in Int
        BY AreaTypes
      <4> HIDE DEF lows
      <4> QED
        BY <3>1, <4>1, GreatestNumber
    <3>3. \E b \in below : \A d \in below : fAreas[d].low <= fAreas[b].low
      BY <3>2
    <3>4. before \in below
      BY <3>3
    <3> HIDE DEF before
    <3>5. PICK y \in Int : y = fAreas[before].high + 1
      BY <3>4, AreaTypes
    <3>6. y % AddressLimit \in 0..(AddressLimit - 1)
      BY Limits, Remainder
    <3> QED
      BY <2>3, <2>4, <2>6, <3>5, <3>6 DEF Addresses
  <2> QED
    BY <2>5, <2>6
<1>2. CASE fromBottom
  <2> DEFINE room == {a \in AreasOf : (fAreas[a].low - Floor(a)) % AddressLimit >= size}
             floors == {Floor(a) : a \in room}
  <2>1. FindFreeRange(size, fromBottom) = IF room = {} THEN INVALID_PAGE ELSE Min(floors)
    BY <1>2 DEF FindFreeRange
  <2>2. floors \in SUBSET Nat /\ floors \subseteq Addresses /\ (room # {} => floors # {})
    BY <1>1 DEF Addresses
  <2> HIDE DEF room, floors
  <2>3. room # {} => Min(floors) \in Addresses
    BY <2>2, MinIs
  <2> QED
    BY <2>1, <2>3
<1>3. CASE ~fromBottom
  <2> DEFINE room == {a \in AreasOf : (Ceiling(a) - fAreas[a].high) % AddressLimit >= size}
             ceilings == {Ceiling(a) : a \in room}
  <2>1. FindFreeRange(size, fromBottom) = IF room = {} THEN INVALID_PAGE
                                          ELSE (Max(ceilings) + 1 - size) % AddressLimit
    BY <1>3 DEF FindFreeRange
  <2>2. ceilings \in SUBSET Int /\ (\A y \in ceilings : y <= AddressLimit) /\ (room # {} => ceilings # {})
    BY <1>1
  <2>3. AddressLimit \in Int
    BY Limits
  <2> HIDE DEF room, ceilings
  <2>4. ASSUME room # {}
        PROVE  (Max(ceilings) + 1 - size) % AddressLimit \in Addresses
    <3>1. Max(ceilings) \in Int
      BY <2>2, <2>3, <2>4, MaxIs
    <3>2. PICK y \in Int : y = Max(ceilings) + 1 - size
      BY <3>1
    <3>3. y % AddressLimit \in 0..(AddressLimit - 1)
      BY Limits, Remainder
    <3> QED
      BY <3>2, <3>3 DEF Addresses
  <2> QED
    BY <2>1, <2>4
<1> QED
  BY <1>2, <1>3

\* The range of whole pages.
LEMMA InRangeIs ==
  ASSUME NEW base \in Int, NEW size \in Nat, size % PAGE_SIZE = 0, NEW va \in Nat
  PROVE  InRange(va, base, size) <=> base <= va /\ va < base + size
<1>1. (size \div PAGE_SIZE) * PAGE_SIZE = size
  BY Limits, Multiple
<1> QED
  BY <1>1 DEF InRange

LEMMA MapAllIs ==
  ASSUME Types, NEW base \in Nat, NEW size \in Nat, size % PAGE_SIZE = 0,
         NEW cache \in Mappable \cup {None}, NEW protection,
         fPhysicalMap' = MapAll(base, size, cache, 0, protection)
  PROVE  /\ fPhysicalMap' \in [PageAddresses -> EntryType]
         /\ \A va \in PageAddresses :
              IF base <= va /\ va < base + size
                THEN /\ va - base \in Offsets
                     /\ fPhysicalMap'[va].page = <<cache, va - base>>
                     /\ fPhysicalMap'[va].writable <=> protection \cap Writes # {}
                ELSE fPhysicalMap'[va] = fPhysicalMap[va]
<1>1. ASSUME NEW va \in PageAddresses
      PROVE  /\ fPhysicalMap'[va] \in EntryType
             /\ IF base <= va /\ va < base + size
                  THEN /\ va - base \in Offsets
                       /\ fPhysicalMap'[va].page = <<cache, va - base>>
                       /\ fPhysicalMap'[va].writable <=> protection \cap Writes # {}
                  ELSE fPhysicalMap'[va] = fPhysicalMap[va]
  <2>1. va \in Nat /\ va <= kAddressSpaceTop
    BY Limits DEF PageAddresses
  <2>2. InRange(va, base, size) <=> base <= va /\ va < base + size
    BY <2>1, InRangeIs
  <2>3. fPhysicalMap'[va] = IF InRange(va, base, size) THEN Mapping(<<cache, va - base + 0>>, protection)
                            ELSE fPhysicalMap[va]
    BY DEF MapAll
  <2>4. fPhysicalMap[va] \in EntryType
    BY DEF Types
  <2>5. CASE base <= va /\ va < base + size
    <3>1. va - base \in Offsets
      BY <2>1, <2>5, Limits DEF Offsets
    <3>2. PICK o \in Offsets : o = va - base /\ o = va - base + 0
      BY <2>1, <3>1
    <3>3. <<cache, o>> \in (Caches \cup {None}) \X Offsets
      BY AddressSpaceAssumption
    <3>4. fPhysicalMap'[va] = Mapping(<<cache, o>>, protection)
      BY <2>2, <2>3, <2>5, <3>2
    <3> QED
      BY <2>5, <3>2, <3>3, <3>4, MappingIs
  <2>6. CASE ~(base <= va /\ va < base + size)
    BY <2>2, <2>3, <2>4, <2>6
  <2> QED
    BY <2>5, <2>6
<1>2. fPhysicalMap' \in [PageAddresses -> EntryType]
  BY <1>1 DEF MapAll
<1> QED
  BY <1>1, <1>2

\* An area that is made where the search, or the caller, found room for it; when
\* it is wired all of it is mapped.
LEMMA AreaMade ==
  ASSUME IInv, CanLockWrite, CountChange, UNCHANGED <<leakedReads, resized>>, copied' \subseteq copied,
         NEW a \in AreaIds, a \notin AreasOf,
         NEW base \in Addresses, NEW size \in Nat \ {0}, size % PAGE_SIZE = 0,
         NEW protection \in SUBSET Accesses, NEW cache \in Mappable \cup {None}, NEW wired \in BOOLEAN,
         ~resized => Gap(base, size),
         NEW area, area = [low |-> base, high |-> (base + size - 1) % AddressLimit,
                           protection |-> protection, cache |-> cache, offset |-> 0, wired |-> wired],
         fAreas' = With(fAreas, a, area),
         fPhysicalMap' = IF wired THEN MapAll(base, size, cache, 0, protection) ELSE fPhysicalMap
  PROVE  IInv'
<1>1. Types /\ base \in Nat
  BY DEF IInv, Addresses
<1>2. /\ fault' \in [Threads -> FaultType]
      /\ \A t \in Threads : FaultOK(t)'
      /\ LeakOK'
  BY ChangeSeen
<1>3. PICK high : high = (base + size - 1) % AddressLimit
  OBVIOUS
<1>4. high \in Addresses
  <2>1. PICK y \in Int : y = base + size - 1
    BY <1>1
  <2>2. y % AddressLimit \in 0..(AddressLimit - 1)
    BY Limits, Remainder
  <2> QED
    BY <1>3, <2>1, <2>2 DEF Addresses
<1>5. /\ area \in AreaType
      /\ area.low = base /\ area.high = high /\ area.protection = protection /\ area.cache = cache
      /\ area.offset = 0
  BY <1>3, <1>4 DEF AreaType
<1>6. /\ AreasOf' = AreasOf \cup {a} /\ fAreas'[a] = area
      /\ \A b \in AreasOf : fAreas'[b] = fAreas[b]
      /\ fAreas' \in [AreasOf' -> AreaType]
  BY <1>1, <1>5 DEF With, AreasOf, Types
<1>7. fPhysicalMap \in [PageAddresses -> EntryType]
  BY <1>1 DEF Types
<1>8. fPhysicalMap' \in [PageAddresses -> EntryType]
  BY <1>1, <1>7, MapAllIs
<1>9. Types'
  BY <1>1, <1>2, <1>6, <1>8 DEF Types
<1>10. WriteOK'
  <2>1. ASSUME NEW va \in PageAddresses, fPhysicalMap'[va].writable
        PROVE  \E c \in Mappable \cup {None}, o \in Offsets : fPhysicalMap'[va].page = <<c, o>>
    <3>1. CASE wired /\ base <= va /\ va < base + size
      BY <1>1, <3>1, MapAllIs
    <3>2. CASE ~(wired /\ base <= va /\ va < base + size)
      <4>1. fPhysicalMap'[va] = fPhysicalMap[va]
        BY <1>1, <3>2, MapAllIs
      <4> QED
        BY <2>1, <4>1 DEF IInv, WriteOK
    <3> QED
      BY <3>1, <3>2
  <2> QED
    BY <2>1 DEF WriteOK
<1>11. ASSUME ~resized
       PROVE  AreasOK' /\ MapOK'
  <2>1. /\ base + size - 1 <= kAddressSpaceTop
        /\ \A b \in AreasOf : fAreas[b].high < base \/ base + size - 1 < fAreas[b].low
    BY <1>11 DEF Gap
  <2>2. AreasOK /\ MapOK
    BY <1>11 DEF IInv
  <2>3. high = base + size - 1
    <3>1. PICK y \in Int : y = base + size - 1
      BY <1>1
    <3>2. y % AddressLimit = y
      BY <1>1, <2>1, <3>1, NoWrap
    <3> QED
      BY <1>3, <3>1, <3>2
  <2>4. AreasOK'
    <3>1. \E b \in (AreasOf \ AreaIds)' : fAreas'[b].low = 0
      BY <1>6, <2>2 DEF AreasOK
    <3>2. \A b \in AreasOf' : fAreas'[b].low <= fAreas'[b].high /\ fAreas'[b].high <= kAddressSpaceTop
      <4>1. base <= high /\ high <= kAddressSpaceTop
        BY <1>1, <2>1, <2>3, Limits
      <4> QED
        BY <1>5, <1>6, <2>2, <4>1 DEF AreasOK
    <3>3. \A b \in AreasOf' \cap AreaIds : (fAreas'[b].high - fAreas'[b].low + 1) % PAGE_SIZE = 0
      <4>1. high - base + 1 = size
        BY <1>1, <2>3
      <4>2. \A b \in AreasOf \cap AreaIds : (fAreas[b].high - fAreas[b].low + 1) % PAGE_SIZE = 0
        BY <2>2 DEF AreasOK
      <4>3. (fAreas'[a].high - fAreas'[a].low + 1) % PAGE_SIZE = 0
        BY <1>5, <1>6, <4>1
      <4> QED
        BY <1>6, <4>2, <4>3
    <3>4. \A b, d \in AreasOf' : b # d => Apart(b, d)'
      <4>1. \A b \in AreasOf : fAreas'[b].high < fAreas'[a].low \/ fAreas'[a].high < fAreas'[b].low
        BY <1>5, <1>6, <2>1, <2>3
      <4>2. \A b, d \in AreasOf : b # d => Apart(b, d)'
        BY <1>6, <2>2 DEF AreasOK, Apart
      <4>3. \A b \in AreasOf : Apart(a, b)' /\ Apart(b, a)'
        BY <4>1 DEF Apart
      <4> QED
        BY <1>6, <4>2, <4>3
    <3> QED
      BY <3>1, <3>2, <3>3, <3>4 DEF AreasOK
  <2>5. ASSUME NEW va \in PageAddresses, fPhysicalMap'[va] # Unmapped
        PROVE  \E b \in Containing(va)' : MappedRight(b, va)'
    <3>a. va \in Nat
      BY Limits DEF PageAddresses
    <3>1. CASE wired /\ base <= va /\ va < base + size
      <4>1. /\ fPhysicalMap'[va].page = <<cache, va - base>>
            /\ fPhysicalMap'[va].writable <=> protection \cap Writes # {}
        BY <1>1, <3>1, MapAllIs
      <4>2. a \in Containing(va)'
        BY <1>1, <1>5, <1>6, <2>3, <3>1, <3>a DEF Containing
      <4>3. MappedRight(a, va)'
        BY <1>5, <1>6, <4>1 DEF MappedRight
      <4> QED
        BY <4>2, <4>3
    <3>2. CASE ~(wired /\ base <= va /\ va < base + size)
      <4>1. fPhysicalMap'[va] = fPhysicalMap[va]
        BY <1>1, <3>2, MapAllIs
      <4>2. PICK b \in Containing(va) : MappedRight(b, va)
        BY <2>2, <2>5, <4>1 DEF MapOK
      <4>3. b \in AreasOf /\ fAreas'[b] = fAreas[b]
        BY <1>6 DEF Containing
      <4>4. b \in Containing(va)' /\ MappedRight(b, va)'
        BY <1>6, <4>1, <4>2, <4>3 DEF Containing, MappedRight
      <4> QED
        BY <4>4
    <3> QED
      BY <3>1, <3>2
  <2> QED
    BY <2>4, <2>5, Zenon DEF MapOK, Unmapped
<1> QED
  BY <1>2, <1>9, <1>10, <1>11 DEF IInv

LEMMA CreateAreaOK ==
  ASSUME IInv, NEW a \in AreaIds, NEW size \in Sizes, NEW protection \in Protections,
         NEW cache \in Mappable, NEW va \in FixedAddresses \cup {INVALID_PAGE},
         NEW fromBottom \in BOOLEAN, NEW wired \in BOOLEAN,
         CreateArea(a, size, protection, cache, va, fromBottom, wired)
  PROVE  IInv'
<1>1. /\ Types /\ size \in Nat \ {0} /\ size % PAGE_SIZE = 0 /\ protection \in SUBSET Accesses
  BY AddressSpaceAssumption DEF IInv
<1>2. /\ a \notin AreasOf /\ CanLockWrite /\ CountChange /\ UNCHANGED <<leakedReads, resized>>
  BY DEF CreateArea
<1> DEFINE high == (va + size - 1) % AddressLimit
<1>3. PICK base : base = IF va = INVALID_PAGE THEN FindFreeRange(size, fromBottom)
                         ELSE IF va % PAGE_SIZE # 0 \/ ~IsRangeFree(va, high) THEN INVALID_PAGE
                         ELSE va
  OBVIOUS
<1>4. PICK area : area = [low |-> base, high |-> (base + size - 1) % AddressLimit,
                          protection |-> protection, cache |-> cache, offset |-> 0, wired |-> wired]
  OBVIOUS
<1>5. IF base = INVALID_PAGE
        THEN UNCHANGED <<fAreas, fPhysicalMap, copied>>
        ELSE /\ fAreas' = With(fAreas, a, area)
             /\ fPhysicalMap' = IF wired THEN MapAll(base, size, cache, 0, protection) ELSE fPhysicalMap
             /\ copied' = {page \in copied : page[1] # cache}
  BY <1>3, <1>4, Zenon DEF CreateArea
<1>6. CASE base = INVALID_PAGE
  <2>1. /\ fault' \in [Threads -> FaultType]
        /\ \A t \in Threads : FaultOK(t)'
        /\ LeakOK'
    BY <1>2, ChangeSeen
  <2>2. UNCHANGED <<fAreas, fPhysicalMap, copied>>
    BY <1>5, <1>6
  <2> QED
    BY <1>2, <2>1, <2>2
       DEF IInv, Types, AreasOf, WriteOK, AreasOK, Apart, Containing, MapOK, MappedRight
<1>7. CASE base # INVALID_PAGE
  <2>1. base \in Addresses /\ (~resized => Gap(base, size))
    <3>1. CASE va = INVALID_PAGE
      <4>1. base = FindFreeRange(size, fromBottom)
        BY <1>3, <3>1
      <4>2. base \in Addresses
        BY <1>1, <1>7, <4>1, FoundTyped
      <4>3. ~resized => AreasOK
        BY DEF IInv
      <4>4. CASE fromBottom
        <5>1. base = FindFreeRange(size, TRUE)
          BY <4>1, <4>4
        <5> QED
          BY <1>1, <1>7, <4>2, <4>3, <5>1, FoundFromBottom
      <4>5. CASE ~fromBottom
        <5>1. base = FindFreeRange(size, FALSE)
          BY <4>1, <4>5
        <5> QED
          BY <1>1, <1>7, <4>2, <4>3, <5>1, FoundFromTop
      <4> QED
        BY <4>4, <4>5
    <3>2. CASE va # INVALID_PAGE
      <4>1. va \in FixedAddresses /\ base = va /\ IsRangeFree(va, high)
        BY <1>3, <1>7, <3>2
      <4>2. va \in Nat /\ va + size - 1 <= kAddressSpaceTop
        BY <4>1, PlacementAssumption
      <4>3. high = va + size - 1
        <5>1. PICK y \in Int : y = va + size - 1
          BY <1>1, <4>2
        <5>2. y % AddressLimit = y
          BY <1>1, <4>2, <5>1, NoWrap
        <5> QED
          BY <5>1, <5>2
      <4>4. IsRangeFree(va, va + size - 1)
        BY <4>1, <4>3
      <4> HIDE DEF high
      <4>5. base \in Addresses
        BY <1>1, <4>1, <4>2, Limits DEF Addresses
      <4>6. ~resized => AreasOK
        BY DEF IInv
      <4>7. ~resized => Gap(va, size)
        BY <1>1, <4>2, <4>4, <4>6, RangeFree
      <4> QED
        BY <4>1, <4>5, <4>7
    <3> QED
      BY <3>1, <3>2
  <2>2. copied' \subseteq copied
    BY <1>5, <1>7
  <2>3. cache \in Mappable \cup {None}
    OBVIOUS
  <2> HIDE DEF high
  <2> QED
    BY <1>1, <1>2, <1>4, <1>5, <1>7, <2>1, <2>2, <2>3, AreaMade
<1> QED
  BY <1>6, <1>7

LEMMA MapPhysicalMemoryOK ==
  ASSUME IInv, NEW a \in AreaIds, NEW size \in Sizes, NEW protection \in Protections,
         MapPhysicalMemory(a, size, protection)
  PROVE  IInv'
<1>1. Types /\ size \in Nat \ {0} /\ size % PAGE_SIZE = 0 /\ protection \in SUBSET Accesses
  BY AddressSpaceAssumption DEF IInv
<1>2. a \notin AreasOf /\ CanLockWrite /\ CountChange /\ UNCHANGED <<copied, leakedReads, resized>>
  BY DEF MapPhysicalMemory
<1>3. PICK base : base = FindFreeRange(size, FALSE)
  OBVIOUS
<1>4. PICK area : area = [low |-> base, high |-> (base + size - 1) % AddressLimit,
                          protection |-> protection, cache |-> None, offset |-> 0, wired |-> TRUE]
  OBVIOUS
<1>5. /\ base # INVALID_PAGE /\ fAreas' = With(fAreas, a, area)
      /\ fPhysicalMap' = MapAll(base, size, None, 0, protection)
  BY <1>3, <1>4, Zenon DEF MapPhysicalMemory
<1>6. base \in Addresses
  BY <1>1, <1>3, <1>5, FoundTyped
<1>7. ~resized => Gap(base, size)
  BY <1>1, <1>3, <1>5, FoundFromTop DEF IInv
<1> QED
  BY <1>1, <1>2, <1>4, <1>5, <1>6, <1>7, AreaMade

LEMMA UnmapIs ==
  ASSUME Types, NEW base, NEW size, fPhysicalMap' = Unmap(base, size)
  PROVE  /\ fPhysicalMap' \in [PageAddresses -> EntryType]
         /\ \A va \in PageAddresses : fPhysicalMap'[va] \in {fPhysicalMap[va], Unmapped}
         /\ \A va \in PageAddresses : InRange(va, base, size) => fPhysicalMap'[va] = Unmapped
         /\ ~Unmapped.writable
<1>1. Unmapped \in EntryType /\ ~Unmapped.writable
  BY DEF Unmapped, EntryType
<1>2. fPhysicalMap \in [PageAddresses -> EntryType]
  BY DEF Types
<1> QED
  BY <1>1, <1>2 DEF Unmap

LEMMA DeleteAreaOK ==
  ASSUME IInv, NEW a \in AreaIds, DeleteArea(a)
  PROVE  IInv'
<1>1. /\ Types /\ a \in AreasOf
      /\ CanLockWrite /\ CountChange /\ UNCHANGED <<copied, leakedReads, resized>>
  BY DEF IInv, DeleteArea
<1>2. PICK size : size = SizeOf(fAreas[a])
  OBVIOUS
<1>3. fAreas' = Without(fAreas, a) /\ fPhysicalMap' = Unmap(fAreas[a].low, size)
  BY <1>2 DEF DeleteArea
<1>4. /\ fault' \in [Threads -> FaultType]
      /\ \A t \in Threads : FaultOK(t)'
      /\ LeakOK'
  BY <1>1, ChangeSeen
<1>5. /\ fPhysicalMap' \in [PageAddresses -> EntryType]
      /\ \A va \in PageAddresses : fPhysicalMap'[va] \in {fPhysicalMap[va], Unmapped}
      /\ \A va \in PageAddresses : InRange(va, fAreas[a].low, size) => fPhysicalMap'[va] = Unmapped
      /\ ~Unmapped.writable
  BY <1>1, <1>3, UnmapIs
<1>6. AreasOf' = AreasOf \ {a} /\ \A b \in AreasOf : b # a => fAreas'[b] = fAreas[b]
  BY <1>3 DEF AreasOf, Without
<1>7. fAreas' \in [AreasOf' -> AreaType]
  BY <1>1, <1>3, <1>6 DEF AreasOf, Without, Types
<1>8. Types'
  BY <1>1, <1>4, <1>5, <1>6, <1>7 DEF Types
<1>9. WriteOK'
  BY <1>5 DEF WriteOK, IInv
<1>10. ASSUME ~resized
       PROVE  AreasOK' /\ MapOK'
  <2>1. AreasOK /\ MapOK
    BY <1>10 DEF IInv
  <2>2. AreasOK'
    BY <1>6, <2>1 DEF AreasOK, Apart
  <2>3. size = fAreas[a].high - fAreas[a].low + 1 /\ size \in Nat /\ size % PAGE_SIZE = 0
    <3>1. /\ fAreas[a].low \in Nat /\ fAreas[a].high \in Nat
          /\ fAreas[a].low <= fAreas[a].high /\ fAreas[a].high <= kAddressSpaceTop
      BY <1>1, <2>1, AreaFacts
    <3>2. PICK z \in AreasOf \ AreaIds : fAreas[z].low = 0
      BY <2>1 DEF AreasOK
    <3>3. fAreas[z].high \in Nat /\ Apart(z, a)
      BY <1>1, <2>1, <3>2, AreaFacts DEF AreasOK
    <3>4. fAreas[a].low > 0
      BY <3>1, <3>2, <3>3 DEF Apart
    <3>5. PICK y \in Int : y = fAreas[a].high - fAreas[a].low + 1
      BY <3>1
    <3>6. y % AddressLimit = y
      BY <3>1, <3>4, <3>5, NoWrap, Limits
    <3>7. size = y
      BY <1>2, <3>5, <3>6 DEF SizeOf
    <3>8. y % PAGE_SIZE = 0
      BY <1>1, <2>1, <3>5 DEF AreasOK
    <3> QED
      BY <3>1, <3>5, <3>7, <3>8
  <2>4. ASSUME NEW va \in PageAddresses, fPhysicalMap'[va] # Unmapped
        PROVE  \E b \in Containing(va)' : MappedRight(b, va)'
    <3>1. fPhysicalMap'[va] = fPhysicalMap[va]
      BY <1>5, <2>4
    <3>2. PICK b \in Containing(va) : MappedRight(b, va)
      BY <2>1, <2>4, <3>1 DEF MapOK
    <3>3. b # a
      <4>1. va \in Nat
        BY Limits DEF PageAddresses
      <4>2. ~InRange(va, fAreas[a].low, size)
        BY <1>5, <2>4
      <4>3. fAreas[a].low \in Nat /\ fAreas[a].high \in Nat
        BY <1>1, AreaTypes
      <4>4. ~(fAreas[a].low <= va /\ va < fAreas[a].low + size)
        BY <2>3, <4>1, <4>2, <4>3, InRangeIs
      <4>5. ~(fAreas[a].low <= va /\ va <= fAreas[a].high)
        BY <2>3, <4>1, <4>3, <4>4
      <4> QED
        BY <4>5 DEF Containing
    <3>4. b \in AreasOf /\ fAreas'[b] = fAreas[b]
      BY <1>6, <3>3 DEF Containing
    <3> QED
      BY <1>6, <3>1, <3>2, <3>3, <3>4 DEF Containing, MappedRight
  <2> QED
    BY <2>2, <2>4, Zenon DEF MapOK, Unmapped
<1> QED
  BY <1>1, <1>4, <1>8, <1>9, <1>10 DEF IInv

\* ResizeArea is not what the kernel calls, and AreasOK is not kept; but what it
\* maps is still typed and never writes through.
LEMMA ResizeAreaOK ==
  ASSUME IInv, NEW a \in AreaIds, NEW newSize \in Sizes, ResizeArea(a, newSize)
  PROVE  IInv'
<1>1. /\ Types /\ a \in AreasOf /\ fAreas[a].cache \in Mappable
      /\ CanLockWrite /\ CountChange /\ UNCHANGED <<copied, leakedReads>> /\ resized' = TRUE
  BY AreaTypes DEF IInv, ResizeArea
<1>2. /\ fault' \in [Threads -> FaultType]
      /\ \A t \in Threads : FaultOK(t)'
      /\ LeakOK'
  BY <1>1, ChangeSeen
<1>3. newSize \in Nat
  BY AddressSpaceAssumption
<1>4. /\ fAreas[a].low \in Nat /\ fAreas[a].high \in Nat /\ fAreas[a].offset = 0
      /\ fAreas[a].protection \in SUBSET Accesses
  BY <1>1, AreaTypes
<1>5. PICK size : size = SizeOf(fAreas[a])
  OBVIOUS
<1>6. size \in Nat
  <2>1. PICK y \in Int : y = fAreas[a].high - fAreas[a].low + 1
    BY <1>4
  <2>2. y % AddressLimit \in 0..(AddressLimit - 1)
    BY Limits, Remainder
  <2> QED
    BY <1>5, <2>1, <2>2, Limits DEF SizeOf
<1> DEFINE low == fAreas[a].low
           mappedAt(va) == {x \in (low + size)..(low + newSize - 1) :
                              (x - low - size) % PAGE_SIZE = 0 /\ x \div PAGE_SIZE = va \div PAGE_SIZE}
<1>7. /\ fAreas' = [fAreas EXCEPT ![a].high = (low + newSize) % AddressLimit]
      /\ \/ fPhysicalMap' = [va \in PageAddresses |->
              IF mappedAt(va) = {} THEN fPhysicalMap[va]
              ELSE Mapping(<<fAreas[a].cache, Min(mappedAt(va)) - low + fAreas[a].offset>>, fAreas[a].protection)]
         \/ fPhysicalMap' = Unmap(low + newSize, size - newSize)
         \/ fPhysicalMap' = fPhysicalMap
  BY <1>5 DEF ResizeArea
<1>8. fAreas' \in [AreasOf -> AreaType] /\ AreasOf' = AreasOf
      /\ \A b \in AreasOf : fAreas'[b].cache = fAreas[b].cache
  <2>1. PICK high : high = (low + newSize) % AddressLimit
    OBVIOUS
  <2>2. high \in Addresses
    <3>1. PICK y \in Int : y = low + newSize
      BY <1>3, <1>4
    <3>2. y % AddressLimit \in 0..(AddressLimit - 1)
      BY Limits, Remainder
    <3> QED
      BY <2>1, <3>1, <3>2 DEF Addresses
  <2>3. fAreas' = [fAreas EXCEPT ![a] = [fAreas[a] EXCEPT !.high = high]]
    BY <1>7, <2>1
  <2>4. PICK area : area = [fAreas[a] EXCEPT !.high = high]
    OBVIOUS
  <2>5. area \in AreaType /\ area.cache = fAreas[a].cache
    BY <1>1, <2>2, <2>4 DEF Types, AreaType
  <2> QED
    BY <1>1, <2>3, <2>4, <2>5 DEF Types, AreasOf
<1>9. ASSUME NEW va \in PageAddresses
      PROVE  /\ fPhysicalMap'[va] \in EntryType
             /\ fPhysicalMap'[va].writable =>
                  \E c \in Mappable \cup {None}, o \in Offsets : fPhysicalMap'[va].page = <<c, o>>
  <2>1. /\ fPhysicalMap[va] \in EntryType
        /\ fPhysicalMap[va].writable =>
             \E c \in Mappable \cup {None}, o \in Offsets : fPhysicalMap[va].page = <<c, o>>
    BY <1>1 DEF Types, IInv, WriteOK
  <2>2. CASE fPhysicalMap'[va] = fPhysicalMap[va]
    BY <2>1, <2>2
  <2>3. CASE fPhysicalMap' = Unmap(low + newSize, size - newSize)
    <3>1. fPhysicalMap'[va] \in {fPhysicalMap[va], Unmapped} /\ ~Unmapped.writable
      BY <1>1, <2>3, UnmapIs
    <3>2. fPhysicalMap'[va] \in EntryType
      BY <1>1, <2>3, UnmapIs
    <3> QED
      BY <2>1, <3>1, <3>2
  <2>4. CASE /\ fPhysicalMap'[va] = Mapping(<<fAreas[a].cache, Min(mappedAt(va)) - low + fAreas[a].offset>>,
                                            fAreas[a].protection)
             /\ mappedAt(va) # {}
    <3>1. mappedAt(va) \in SUBSET Nat
      BY <1>3, <1>4, <1>6
    <3>2. PICK x : x = Min(mappedAt(va))
      OBVIOUS
    <3>3. x \in mappedAt(va)
      <4> HIDE DEF mappedAt
      <4> QED
        BY <2>4, <3>1, <3>2, MinIs
    <3>4. x \in Nat /\ low + size <= x /\ x \div PAGE_SIZE = va \div PAGE_SIZE
      BY <3>1, <3>3, <1>3, <1>4, <1>6
    <3>5. va \in Nat /\ va <= kAddressSpaceTop /\ va % PAGE_SIZE = 0
      BY Limits DEF PageAddresses
    <3>6. x < va + PAGE_SIZE
      BY <3>4, <3>5, Limits, SameBlock
    <3>7. va + PAGE_SIZE <= kAddressSpaceTop + 1
      <4>1. PICK z \in Nat : z = kAddressSpaceTop + 1 /\ z % PAGE_SIZE = 0
        BY AddressSpaceAssumption
      <4>2. va + PAGE_SIZE <= z
        BY <3>5, <4>1, Limits, NextMultiple
      <4> QED
        BY <4>1, <4>2
    <3>8. x - low \in Offsets
      BY <1>4, <1>6, <3>4, <3>5, <3>6, <3>7, Limits DEF Offsets
    <3>9. PICK o \in Offsets : o = x - low + fAreas[a].offset
      BY <1>4, <3>4, <3>8
    <3>10. fPhysicalMap'[va] = Mapping(<<fAreas[a].cache, o>>, fAreas[a].protection)
      BY <2>4, <3>2, <3>9
    <3>11. <<fAreas[a].cache, o>> \in (Caches \cup {None}) \X Offsets
      BY <1>1, AddressSpaceAssumption
    <3> QED
      BY <1>1, <3>10, <3>11, MappingIs
  <2> QED
    BY <1>7, <2>2, <2>3, <2>4
<1>10. fPhysicalMap' \in [PageAddresses -> EntryType]
  <2>1. DOMAIN fPhysicalMap' = PageAddresses /\ fPhysicalMap' = [va \in PageAddresses |-> fPhysicalMap'[va]]
    BY <1>1, <1>7 DEF Types, Unmap
  <2> QED
    BY <1>9, <2>1
<1>11. Types'
  BY <1>1, <1>2, <1>8, <1>10 DEF Types
<1>12. WriteOK'
  BY <1>9 DEF WriteOK
<1> QED
  BY <1>1, <1>2, <1>11, <1>12 DEF IInv

-----------------------------------------------------------------------------
(* The constructor. *)

Clear(i, j) == Layout[i][1] > Layout[j][2] \/ Layout[i][2] < Layout[j][1]

\* The areas that are added are determined one after the other.
AddedUpTo(n, S) == \A i \in 1..n : i \in S <=> \A j \in S : j < i => Clear(i, j)

LEMMA AddedExists ==
  ASSUME NEW N \in Nat
  PROVE  \E S \in SUBSET (1..N) : AddedUpTo(N, S)
<1> DEFINE Fails == {n \in Nat : ~ \E S \in SUBSET (1..n) : AddedUpTo(n, S)}
<1>1. SUFFICES ASSUME Fails # {}
               PROVE  FALSE
  OBVIOUS
<1>2. PICK n \in Fails : \A m \in Fails : n <= m
  <2>1. Fails \in SUBSET Nat
    OBVIOUS
  <2> HIDE DEF Fails
  <2> QED
    BY <1>1, <2>1, LeastNumber
<1>3. n \in Nat /\ ~ \E S \in SUBSET (1..n) : AddedUpTo(n, S)
  BY <1>2
<1>4. n # 0
  <2>1. ASSUME n = 0
        PROVE  AddedUpTo(n, {}) /\ {} \in SUBSET (1..n)
    BY <2>1 DEF AddedUpTo
  <2> QED
    BY <1>3, <2>1
<1>5. PICK m \in Nat : n = m + 1
  <2>1. n - 1 \in Nat /\ n = (n - 1) + 1
    BY <1>3, <1>4
  <2> QED
    BY <2>1
<1>6. m \notin Fails
  <2> HIDE DEF Fails
  <2> QED
    BY <1>2, <1>5
<1>7. PICK S \in SUBSET (1..m) : AddedUpTo(m, S)
  BY <1>6
<1> HIDE DEF Fails
<1> DEFINE fits == \A j \in S : j < n => Clear(n, j)
           R == IF fits THEN S \cup {n} ELSE S
<1>8. R \in SUBSET (1..n)
  BY <1>5
<1>9. \A j : j \in R <=> j \in S \/ (j = n /\ fits)
  OBVIOUS
<1>10. \A j \in S : j \in 1..m /\ j < n
  BY <1>5
<1> HIDE DEF R
<1>11. ASSUME NEW i \in 1..n
       PROVE  i \in R <=> \A j \in R : j < i => Clear(i, j)
  <2>1. CASE i = n
    <3>1. (\A j \in R : j < i => Clear(i, j)) <=> fits
      <4>1. \A j : j < n => (j \in R <=> j \in S)
        BY <1>3, <1>9
      <4>2. (\A j \in R : j < n => Clear(n, j)) <=> fits
        BY <4>1
      <4> QED
        BY <2>1, <4>2
    <3>2. i \in R <=> fits
      BY <1>3, <1>9, <1>10, <2>1
    <3> QED
      BY <3>1, <3>2
  <2>2. CASE i # n
    <3>1. i \in 1..m /\ i < n
      BY <1>5, <2>2
    <3> HIDE DEF fits
    <3>2. i \in R <=> i \in S
      BY <1>9, <2>2
    <3>3. \A j : j < i => (j \in R <=> j \in S)
      <4>1. ~(n < i)
        BY <1>5, <3>1
      <4> QED
        BY <1>9, <4>1
    <3>4. i \in S <=> \A j \in S : j < i => Clear(i, j)
      BY <1>7, <3>1 DEF AddedUpTo
    <3> QED
      BY <3>2, <3>3, <3>4
  <2> QED
    BY <2>1, <2>2
<1> QED
  BY <1>3, <1>8, <1>11 DEF AddedUpTo

LEMMA AddedIs ==
  /\ Added \in SUBSET (1..Len(Layout))
  /\ \A i \in 1..Len(Layout) : i \in Added <=> \A j \in Added : j < i => Clear(i, j)
<1>1. Len(Layout) \in Nat
  BY PlacementAssumption
<1>2. PICK N \in Nat : N = Len(Layout)
  BY <1>1
<1>3. \E S \in SUBSET (1..N) : AddedUpTo(N, S)
  BY AddedExists
<1>4. Added = CHOOSE S \in SUBSET (1..N) : AddedUpTo(N, S)
  BY <1>2 DEF Added, AddedUpTo, Clear
<1>5. Added \in SUBSET (1..N) /\ AddedUpTo(N, Added)
  BY <1>3, <1>4
<1> QED
  BY <1>2, <1>5 DEF AddedUpTo

LEMMA InitOK ==
  ASSUME Init
  PROVE  IInv
<1>1. /\ AreasOf = Added
      /\ \A i \in Added : fAreas[i] = [low |-> Layout[i][1], high |-> Layout[i][2], protection |-> Accesses,
                                       cache |-> None, offset |-> 0, wired |-> TRUE]
      /\ fAreas \in [Added -> {fAreas[i] : i \in Added}]
  BY DEF Init, LayoutAreas, AreasOf
<1>2. Added \in SUBSET (1..Len(Layout))
  BY AddedIs
<1>3. ASSUME NEW i \in Added
      PROVE  /\ Layout[i][1] \in Nat /\ Layout[i][2] \in Nat
             /\ Layout[i][1] <= Layout[i][2] /\ Layout[i][2] <= kAddressSpaceTop
  <2>1. i \in 1..Len(Layout)
    BY <1>2
  <2>2. Layout[i] \in Nat \X Nat
    BY <2>1, PlacementAssumption
  <2> QED
    BY <2>1, <2>2, PlacementAssumption
<1>4. \A i \in Added : fAreas[i] \in AreaType
  <2>1. ASSUME NEW i \in Added
        PROVE  fAreas[i] \in AreaType
    <3>1. Layout[i][1] \in Addresses /\ Layout[i][2] \in Addresses
      BY <1>3, Limits DEF Addresses
    <3>2. PICK low \in Addresses, high \in Addresses : low = Layout[i][1] /\ high = Layout[i][2]
      BY <3>1
    <3>3. fAreas[i] = [low |-> low, high |-> high, protection |-> Accesses,
                       cache |-> None, offset |-> 0, wired |-> TRUE]
      BY <1>1, <3>2
    <3>4. None \in Mappable \cup {None} /\ Accesses \in SUBSET Accesses /\ 0 \in {0} /\ TRUE \in BOOLEAN
      OBVIOUS
    <3> QED
      BY <3>3, <3>4 DEF AreaType
  <2> QED
    BY <2>1
<1>5. Types
  <2>1. fAreas \in [AreasOf -> AreaType]
    BY <1>1, <1>4
  <2>2. fPhysicalMap \in [PageAddresses -> EntryType]
    BY DEF Init, Unmapped, EntryType
  <2>3. fault \in [Threads -> FaultType]
    BY NoFaultIs DEF Init
  <2>4. \A a \in AreasOf : fAreas[a].cache = None
    BY <1>1
  <2> QED
    BY <1>1, <1>2, <2>1, <2>2, <2>3, <2>4 DEF Init, Types
<1>6. \A t \in Threads : FaultOK(t)
  BY NoFaultIs DEF Init, FaultOK
<1>7. LeakOK
  <2>1. Seen = {}
    BY NoFaultIs DEF Init, Seen
  <2>2. Cardinality({}) = 0 /\ Cardinality(Threads) \in Nat
    BY AddressSpaceAssumption, FS_CardinalityType, FS_EmptySet
  <2> QED
    BY <2>1, <2>2 DEF Init, LeakOK
<1>8. WriteOK /\ MapOK
  BY DEF Init, WriteOK, MapOK, Unmapped
<1>9. AreasOK
  <2>1. 1 \in Added
    <3>1. 1 \in 1..Len(Layout)
      BY PlacementAssumption
    <3>2. \A j \in Added : ~(j < 1)
      BY <1>2
    <3> QED
      BY <3>1, <3>2, AddedIs
  <2>2. Added \cap AreaIds = {}
    BY <1>2, AddressSpaceAssumption
  <2>3. ASSUME NEW i \in Added, NEW j \in Added, i # j
        PROVE  Apart(i, j)
    <3>1. i \in Int /\ j \in Int
      BY <1>2
    <3>2. Clear(i, j) \/ Clear(j, i)
      <4>1. i < j \/ j < i
        BY <2>3, <3>1
      <4> QED
        BY <1>2, <4>1, AddedIs
    <3> QED
      BY <1>1, <1>3, <3>2 DEF Apart, Clear
  <2>4. fAreas[1].low = 0
    BY <1>1, <2>1, PlacementAssumption
  <2>5. \A i \in Added : fAreas[i].low <= fAreas[i].high /\ fAreas[i].high <= kAddressSpaceTop
    BY <1>1, <1>3
  <2> QED
    BY <1>1, <2>1, <2>2, <2>3, <2>4, <2>5 DEF AreasOK
<1> QED
  BY <1>5, <1>6, <1>7, <1>8, <1>9 DEF IInv

-----------------------------------------------------------------------------
(* The theorems. *)

LEMMA NothingOK ==
  ASSUME IInv, UNCHANGED vars
  PROVE  IInv'
  BY DEF IInv, vars, Types, AreasOf, FaultOK, Containing, LeakOK, Seen, WriteOK, AreasOK, Apart,
         MapOK, MappedRight

\* The inductive invariant holds in every state that threads which fault, and
\* operations that create, resize and delete areas meanwhile, can reach.
THEOREM AddressSpaceInvariant == Spec => []IInv
<1>1. Init => IInv
  BY InitOK
<1>2. IInv /\ [Next]_vars => IInv'
  <2> SUFFICES ASSUME IInv, [Next]_vars
               PROVE  IInv'
    OBVIOUS
  <2>1. CASE UNCHANGED vars
    BY <2>1, NothingOK
  <2>2. CASE Faulting
    <3>1. PICK t \in Threads :
            \/ \E va \in PageAddresses, access \in Accesses : FaultLookup(t, va, access)
            \/ GetPage(t) \/ FaultMap(t) \/ FaultRecheck(t)
      BY <2>2 DEF Faulting
    <3>2. CASE \E va \in PageAddresses, access \in Accesses : FaultLookup(t, va, access)
      BY <3>2, FaultLookupOK
    <3>3. CASE GetPage(t)
      BY <3>3, GetPageOK
    <3>4. CASE FaultMap(t)
      BY <3>4, FaultMapOK
    <3>5. CASE FaultRecheck(t)
      BY <3>5, FaultRecheckOK
    <3> QED
      BY <3>1, <3>2, <3>3, <3>4, <3>5
  <2>3. CASE Changing
    <3>1. PICK a \in AreaIds :
            \/ \E size \in Sizes, protection \in Protections, cache \in Mappable,
                  va \in FixedAddresses \cup {INVALID_PAGE}, fromBottom, wired \in BOOLEAN :
                 CreateArea(a, size, protection, cache, va, fromBottom, wired)
            \/ \E size \in Sizes, protection \in Protections : MapPhysicalMemory(a, size, protection)
            \/ DeleteArea(a)
      BY <2>3 DEF Changing
    <3>2. CASE \E size \in Sizes, protection \in Protections, cache \in Mappable,
                  va \in FixedAddresses \cup {INVALID_PAGE}, fromBottom, wired \in BOOLEAN :
                 CreateArea(a, size, protection, cache, va, fromBottom, wired)
      BY <3>2, CreateAreaOK
    <3>3. CASE \E size \in Sizes, protection \in Protections : MapPhysicalMemory(a, size, protection)
      BY <3>3, MapPhysicalMemoryOK
    <3>4. CASE DeleteArea(a)
      BY <3>4, DeleteAreaOK
    <3> QED
      BY <3>1, <3>2, <3>3, <3>4
  <2>4. CASE Resizing
    BY <2>4, ResizeAreaOK DEF Resizing
  <2> QED
    BY <2>1, <2>2, <2>3, <2>4 DEF Next
<1> QED
  BY <1>1, <1>2, PTL DEF Spec

LEMMA TypesOK ==
  ASSUME IInv
  PROVE  TypeOK
<1>1. Types /\ LeakOK
  BY DEF IInv
<1>2. \A a \in AreasOf :
        fAreas[a] \in [low : 0..(AddressLimit - 1), high : 0..(AddressLimit - 1), protection : SUBSET Accesses,
                       cache : Caches \cup {None}, offset : Nat, wired : BOOLEAN]
  <2>1. Mappable \cup {None} \subseteq Caches \cup {None} /\ {0} \subseteq Nat
    BY AddressSpaceAssumption
  <2> QED
    BY <1>1, <2>1 DEF Types, AreaType, Addresses
<1>3. ASSUME NEW va \in PageAddresses
      PROVE  /\ fPhysicalMap[va].writable \in BOOLEAN
             /\ fPhysicalMap[va].page \in {None} \cup ((Caches \cup {None}) \X (0..kAddressSpaceTop))
  BY <1>1 DEF Types, EntryType, Offsets
<1>4. ASSUME NEW t \in Threads
      PROVE  fault[t].at \in {"idle", "get page", "map"} /\ fault[t].area \in AreaIds \cup {None}
  BY <1>1 DEF Types, FaultType
<1>5. leakedReads \in 0..Cardinality(Threads)
  <2>1. Seen \subseteq Threads /\ IsFiniteSet(Threads)
    BY AddressSpaceAssumption DEF Seen
  <2>2. Cardinality(Seen) \in Nat /\ Cardinality(Threads) \in Nat
    BY <2>1, FS_Subset, FS_CardinalityType
  <2>3. leakedReads \in Nat /\ leakedReads + Cardinality(Seen) <= Cardinality(Threads)
    BY <1>1 DEF Types, LeakOK
  <2> QED
    BY <2>2, <2>3
<1> QED
  BY <1>1, <1>2, <1>3, <1>4, <1>5 DEF TypeOK, Types, Offsets

\* Areas never overlap: FindFreeRange, which looks at the neighbours of each
\* area, finds what IsRangeFree and the tree's Add would accept.
THEOREM AddressSpaceAreasDisjoint == Spec => []AreasDisjoint
<1>1. IInv => AreasDisjoint
  <2>1. ASSUME IInv, ~resized, NEW a \in AreasOf, NEW b \in AreasOf, a # b
        PROVE  ~Overlaps(fAreas[a], fAreas[b].low, fAreas[b].high)
    <3>1. Types /\ AreasOK
      BY <2>1 DEF IInv
    <3>2. Apart(a, b)
      BY <2>1, <3>1 DEF AreasOK
    <3>3. /\ fAreas[a].low \in Nat /\ fAreas[a].high \in Nat
          /\ fAreas[b].low \in Nat /\ fAreas[b].high \in Nat
      BY <3>1, AreaFacts
    <3> QED
      BY <3>2, <3>3 DEF Apart, Overlaps
  <2> QED
    BY <2>1, TypesOK DEF AreasDisjoint
<1> QED
  BY <1>1, AddressSpaceInvariant, PTL

\* What HandleFault and CreateArea have mapped at an address is what the area
\* that is there now says, however they met with the deletion of areas.
THEOREM AddressSpaceMappingsInAreas == Spec => []MappingsInAreas
<1>1. IInv => MappingsInAreas
  <2>1. ASSUME IInv, ~resized, NEW va \in PageAddresses, fPhysicalMap[va] # Unmapped
        PROVE  \E a \in Containing(va) :
                 LET area == fAreas[a]
                     own == <<area.cache, va - area.low + area.offset>>
                 IN  /\ \/ fPhysicalMap[va].page = own
                        \/ area.cache \in Copies /\ fPhysicalMap[va].page = <<Source[area.cache], own[2]>>
                     /\ fPhysicalMap[va].writable => /\ area.protection \cap Writes # {}
                                                     /\ fPhysicalMap[va].page = own
    <3>1. PICK a \in Containing(va) : MappedRight(a, va)
      BY <2>1 DEF IInv, MapOK
    <3>2. va \in Nat /\ a \in AreasOf
      BY Limits DEF PageAddresses, Containing
    <3>3. fAreas[a].low \in Nat /\ fAreas[a].offset = 0
      BY <2>1, <3>2, AreaTypes DEF IInv
    <3>4. va - fAreas[a].low + fAreas[a].offset = va - fAreas[a].low
      BY <3>2, <3>3
    <3> QED
      BY <3>1, <3>4 DEF MappedRight
  <2> QED
    BY <2>1, Zenon DEF MappingsInAreas
<1> QED
  BY <1>1, AddressSpaceInvariant, PTL

\* FindFreeRange from the top returns the highest free range, and fails only
\* when there is none.
THEOREM AddressSpaceSearchFromTop == Spec => []SearchFromTop
<1>1. IInv => SearchFromTop
  BY SearchIsHighest DEF SearchFromTop
<1> QED
  BY <1>1, AddressSpaceInvariant, PTL

\* HandleFault maps the page of a file that areas only copy read-only, and
\* nothing else maps it; this holds after ResizeArea too.
THEOREM AddressSpaceNoWriteThrough == Spec => []NoWriteThrough
<1>1. IInv => NoWriteThrough
  <2>1. ASSUME IInv, NEW va \in PageAddresses, fPhysicalMap[va].writable
        PROVE  fPhysicalMap[va].page[1] \notin Files \ Mappable
    <3>1. PICK c \in Mappable \cup {None}, o \in Offsets : fPhysicalMap[va].page = <<c, o>>
      BY <2>1 DEF IInv, WriteOK
    <3>2. fPhysicalMap[va].page[1] = c
      BY <3>1
    <3>3. None \notin Files
      BY AddressSpaceAssumption DEF Caches
    <3> QED
      BY <3>2, <3>3
  <2> QED
    BY <2>1 DEF NoWriteThrough
<1> QED
  BY <1>1, AddressSpaceInvariant, PTL
=============================================================================

------------------------- MODULE AddressBookProofs -------------------------
(***************************************************************************)
(* What AddressBook guarantees for any limit and any number of requests    *)
(* and faults.                                                             *)
(***************************************************************************)
EXTENDS AddressBook, FiniteSetTheorems, WellFoundedInduction, TLAPS

Place == {"idle", "clear_add", "clear_others", "clear", "add", "write", "delete", "newest",
          "promote"}

Entry == [pc : Place, addr : Nat, mark : BOOLEAN, seen : Nat, stirred : BOOLEAN,
          late : BOOLEAN]

\* The types, and a request without a place is Idle.
BookTyped ==
    /\ clock \in Nat /\ book \subseteq 1..clock /\ default \subseteq book
    /\ raced \in BOOLEAN /\ failed \in BOOLEAN
    /\ unseen \in Nat /\ requests \in Nat /\ faults \in Nat
    /\ req \in [Task -> Entry]
    /\ \A t \in Task :
          /\ req[t].addr \in 0..clock /\ (req[t].pc # "idle" => req[t].addr # 0)
          /\ req[t].pc = "idle" => req[t] = Idle

\* One default; and a request that is not late finds none but its own when it marks one.
Alone(t) ==
    /\ req[t].pc \in {"add", "write", "delete"} /\ req[t].mark => default \subseteq {req[t].addr}
    /\ req[t].pc \in {"newest", "promote"} => default = {}

OneMarked ==
    raced \/ failed \/ (/\ \A a, b \in default : a = b
                        /\ \A t \in Task : ~req[t].late => Alone(t))

\* The limit, and what the requests that add have counted.
Counted ==
    /\ Cardinality(book) <= MaxAddresses + unseen
    /\ \A t \in Task : req[t].pc \in {"clear_add", "add"} => req[t].seen < MaxAddresses

\* Nobody took the address away from a deletion that was not disturbed.
Present ==
    \A t \in Task : req[t].pc \in {"delete", "promote"} /\ ~req[t].stirred => req[t].addr \in book

BookInv == BookTyped /\ OneMarked /\ Counted /\ Present

\* The book is finite.
LEMMA BookFinite ==
    ASSUME BookTyped
    PROVE  IsFiniteSet(book) /\ Cardinality(book) \in Nat
<1>1. IsFiniteSet(1..clock)
    BY FS_Interval DEF BookTyped
<1> QED
    BY <1>1, FS_Subset, FS_CardinalityType, Zenon DEF BookTyped

\* Max returns an element.
LEMMA MaxWithin ==
    ASSUME NEW n \in Nat, NEW S \in SUBSET (1..n), S # {}
    PROVE  Max(S) \in S
<1> DEFINE T == {n - x : x \in S}
<1>1. T \subseteq Nat /\ T # {}
    OBVIOUS
<1>2. PICK m \in T : \A y \in T : ~(<<y, m>> \in OpToRel(<, Nat))
    BY <1>1, NatLessThanWellFounded, WFMin, Zenon
<1>3. \A y \in T : ~(y < m)
    BY <1>1, <1>2, Zenon DEF OpToRel
<1>4. PICK x \in S : m = n - x
    OBVIOUS
<1>5. \A y \in S : x >= y
    <2> TAKE y \in S
    <2>1. ~(n - y < m)
        BY <1>3
    <2> QED
        BY <2>1, <1>4
<1> QED
    BY <1>5, Zenon DEF Max

\* The fields of a new request.
LEMMA IdleEntry == Idle \in Entry /\ Idle.pc = "idle" /\ Idle.addr = 0
BY DEF Idle, Entry, Place

\* The initial state.
LEMMA BookInit == Init => BookInv
<1> SUFFICES ASSUME Init PROVE BookInv
    OBVIOUS
<1>1. BookTyped
    <2>1. req \in [Task -> Entry] /\ \A t \in Task : req[t] = Idle
        BY IdleEntry DEF Init
    <2>2. \A t \in Task :
             /\ req[t].addr \in 0..clock /\ (req[t].pc # "idle" => req[t].addr # 0)
             /\ req[t].pc = "idle" => req[t] = Idle
        BY <2>1, IdleEntry DEF Init
    <2>3. /\ clock \in Nat /\ book \subseteq 1..clock /\ default \subseteq book
          /\ raced \in BOOLEAN /\ failed \in BOOLEAN
          /\ unseen \in Nat /\ requests \in Nat /\ faults \in Nat
        BY Zenon DEF Init
    <2> QED
        BY <2>1, <2>2, <2>3, Zenon DEF BookTyped
<1>2. OneMarked /\ Present
    BY DEF Init, OneMarked, Alone, Present, Idle
<1>3. Counted
    BY LimitAssumption, FS_EmptySet DEF Init, Counted, Idle
<1> QED
    BY <1>1, <1>2, <1>3 DEF BookInv

\* A write: the others go on where they were and know of it.
LEMMA Writes ==
    ASSUME BookTyped, NEW t \in Task, NEW r \in Entry, NEW marks \in BOOLEAN,
           Wrote(t, r, marks)
    PROVE  /\ req' \in [Task -> Entry] /\ req'[t] = r
           /\ \A x \in Task \ {t} :
                 /\ req'[x].pc = req[x].pc /\ req'[x].addr = req[x].addr
                 /\ req'[x].mark = req[x].mark /\ req'[x].seen = req[x].seen
                 /\ req[x].pc # "idle" => /\ req'[x].stirred
                                          /\ req'[x].late = (req[x].late \/ marks)
                 /\ req[x].pc = "idle" => req'[x] = Idle
           /\ raced' = (raced \/ (marks /\ req[t].late))
<1>1. Idle \in Entry
    BY DEF Idle, Entry, Place
<1>2. ASSUME NEW x \in Task
      PROVE  [req[x] EXCEPT !.stirred = TRUE, !.late = @ \/ marks] \in Entry
    BY Zenon DEF BookTyped, Entry
<1>3. req' \in [Task -> Entry]
    BY <1>1, <1>2, Zenon DEF Wrote
<1>4. ASSUME NEW x \in Task \ {t}
      PROVE  /\ req'[x].pc = req[x].pc /\ req'[x].addr = req[x].addr
             /\ req'[x].mark = req[x].mark /\ req'[x].seen = req[x].seen
             /\ req[x].pc # "idle" => /\ req'[x].stirred
                                      /\ req'[x].late = (req[x].late \/ marks)
             /\ req[x].pc = "idle" => req'[x] = Idle
    <2>1. CASE req[x].pc = "idle"
        BY <2>1, <1>1, Zenon DEF Wrote, BookTyped
    <2>2. CASE req[x].pc # "idle"
        <3>1. req'[x] = [req[x] EXCEPT !.stirred = TRUE, !.late = @ \/ marks]
            BY <2>2, IdleEntry, Zenon DEF Wrote
        <3> QED
            BY <3>1, <2>2 DEF BookTyped, Entry
    <2> QED
        BY <2>1, <2>2
<1> QED
    BY <1>3, <1>4, Zenon DEF Wrote

\* A step of a request that writes nothing: the others do not move.
Quiet(t, r) ==
    /\ r \in Entry /\ req' = [req EXCEPT ![t] = r]
    /\ UNCHANGED <<book, default, raced, failed, unseen>>

\* What a new place of a quiet request owes.
LEMMA Quietly ==
    ASSUME BookInv, NEW t \in Task, NEW r, Quiet(t, r),
           clock' \in Nat, clock' >= clock, requests' \in Nat, faults' \in Nat,
           r.addr \in 0..clock', r.pc # "idle" => r.addr # 0, r.pc = "idle" => r = Idle,
           raced \/ failed \/ r.late \/
              (/\ r.pc \in {"add", "write", "delete"} /\ r.mark => default \subseteq {r.addr}
               /\ r.pc \in {"newest", "promote"} => default = {}),
           r.pc \in {"clear_add", "add"} => r.seen < MaxAddresses,
           r.pc \in {"delete", "promote"} /\ ~r.stirred => r.addr \in book
    PROVE  BookInv'
<1>1. /\ req' \in [Task -> Entry] /\ req'[t] = r
      /\ \A x \in Task \ {t} : req'[x] = req[x]
    BY DEF BookInv, BookTyped, Quiet
<1>2. BookTyped'
    BY <1>1 DEF BookInv, BookTyped, Quiet
<1>3. OneMarked'
    <2> SUFFICES ASSUME ~raced, ~failed PROVE OneMarked'
        BY DEF Quiet, OneMarked
    <2>1. \A x \in Task \ {t} : ~req'[x].late => Alone(x)'
        BY <1>1 DEF Quiet, BookInv, OneMarked, Alone
    <2>2. ~req'[t].late => Alone(t)'
        BY <1>1 DEF Quiet, Alone
    <2> QED
        BY <2>1, <2>2 DEF Quiet, BookInv, OneMarked
<1>4. Counted' /\ Present'
    BY <1>1 DEF BookInv, Counted, Present, Quiet
<1> QED
    BY <1>2, <1>3, <1>4 DEF BookInv

\* The steps that write nothing.
LEMMA BookQuiet ==
    ASSUME BookInv, NEW t \in Task,
           \/ Newest(t) \/ Drop(t) \/ \E d \in BOOLEAN : Add(t, d)
           \/ \E a \in book : SetDefault(t, a) \/ Delete(t, a) \/ \E d \in BOOLEAN : Update(t, a, d)
    PROVE  BookInv'
<1>1. CASE Newest(t) /\ book = {}
    <2>1. Quiet(t, Idle)
        BY <1>1, IdleEntry, Zenon DEF Newest, Done, Quiet
    <2> QED
        BY <2>1, <1>1, Quietly, IdleEntry DEF Newest, BookInv, BookTyped
<1>2. CASE Newest(t) /\ book # {}
    <2> DEFINE r == [req[t] EXCEPT !.pc = "promote", !.addr = Max(book)]
    <2>a. clock \in Nat /\ book \in SUBSET (1..clock)
        BY DEF BookInv, BookTyped
    <2>b. Max(book) \in book
        BY <1>2, <2>a, MaxWithin, Zenon
    <2>1. Max(book) \in book /\ Max(book) \in Nat \ {0} /\ Max(book) \in 0..clock
        <3>1. \A m \in book : m \in Nat \ {0} /\ m \in 0..clock
            BY <2>a
        <3> QED
            BY <3>1, <2>b, Zenon
    <2>2. /\ r \in Entry /\ r.addr = Max(book) /\ r.pc = "promote" /\ r.late = req[t].late
        BY <2>1, Zenon DEF BookInv, BookTyped, Entry, Place
    <2>3. req' = [req EXCEPT ![t] = r]
        BY <1>2, Zenon DEF Newest, BookInv, BookTyped
    <2>4. raced \/ failed \/ r.late \/ default = {}
        BY <1>2, <2>2 DEF Newest, BookInv, OneMarked, Alone
    <2> HIDE DEF r
    <2>5. Quiet(t, r)
        BY <2>2, <2>3, <1>2, Zenon DEF Newest, Quiet
    <2> QED
        BY <2>1, <2>2, <2>4, <2>5, <1>2, Quietly DEF Newest, BookInv, BookTyped
<1>3. CASE Drop(t)
    <2>1. Quiet(t, Idle)
        BY <1>3, IdleEntry, Zenon DEF Drop, Done, Quiet
    <2> QED
        BY <2>1, <1>3, Quietly, IdleEntry DEF Drop, Fault, BookInv, BookTyped
<1>4. ASSUME NEW d \in BOOLEAN, Add(t, d) PROVE BookInv'
    <2> DEFINE p == IF d THEN "clear_add" ELSE "add"
    <2>1. PICK n \in {Cardinality(book), 0} :
             /\ IF n = Cardinality(book) THEN UNCHANGED faults ELSE Fault
             /\ n < MaxAddresses
             /\ clock' = clock + 1
             /\ Begin(t, [Idle EXCEPT !.pc = p, !.addr = clock + 1, !.mark = d, !.seen = n])
             /\ UNCHANGED <<book, default, raced, failed, unseen>>
        BY <1>4, Zenon DEF Add
    <2> DEFINE r == [Idle EXCEPT !.pc = p, !.addr = clock + 1, !.mark = d, !.seen = n]
    <2>2. n \in Nat /\ clock + 1 \in Nat
        BY BookFinite DEF BookInv, BookTyped
    <2>3. p \in Place /\ p \in {"clear_add", "add"} /\ (p = "add" => ~d)
        BY DEF Place
    <2> HIDE DEF p
    <2>a. r = [Idle EXCEPT !.pc = p, !.addr = clock + 1, !.mark = d, !.seen = n]
        OBVIOUS
    <2> HIDE DEF r
    <2>4. /\ r \in Entry /\ r.pc = p /\ r.addr = clock + 1 /\ r.mark = d /\ r.seen = n
        BY <2>2, <2>3, <2>a, Zenon DEF Entry, Idle
    <2>5. Quiet(t, r)
        BY <2>1, <2>4, Zenon DEF Begin, Quiet, r
    <2>6. faults' \in Nat /\ requests' \in Nat /\ clock' \in Nat /\ clock' >= clock
        BY <2>1 DEF Begin, Fault, BookInv, BookTyped
    <2>7. r.addr \in 0..clock' /\ r.addr # 0 /\ r.seen < MaxAddresses
        BY <2>1, <2>4 DEF BookInv, BookTyped
    <2> QED
        BY <2>3, <2>4, <2>5, <2>6, <2>7, Quietly
<1>5. ASSUME NEW a \in book, NEW p \in Place, NEW d \in BOOLEAN,
             Begin(t, [Idle EXCEPT !.pc = p, !.addr = a, !.mark = d]),
             UNCHANGED <<book, default, clock, raced, failed, unseen, faults>>,
             \/ p \in {"clear", "clear_others"}
             \/ p = "write" /\ ~d
             \/ p = "delete" /\ d = (a \in default)
      PROVE  BookInv'
    <2> DEFINE r == [Idle EXCEPT !.pc = p, !.addr = a, !.mark = d]
    <2>1. a \in Nat \ {0} /\ a \in 0..clock /\ clock' = clock
        BY <1>5 DEF BookInv, BookTyped
    <2>a. r = [Idle EXCEPT !.pc = p, !.addr = a, !.mark = d] /\ 0 \in Nat
        OBVIOUS
    <2> HIDE DEF r
    <2>2. /\ r \in Entry /\ r.pc = p /\ r.addr = a /\ r.mark = d /\ r.seen = 0
        BY <1>5, <2>1, <2>a, Zenon DEF Entry, Idle
    <2>3. Quiet(t, r)
        BY <1>5, <2>2, Zenon DEF Begin, Quiet, r
    <2>4. requests' \in Nat /\ faults' \in Nat
        BY <1>5 DEF Begin, BookInv, BookTyped
    <2>5. raced \/ failed \/ (p = "delete" /\ d => default \subseteq {a})
        BY <1>5 DEF BookInv, OneMarked
    <2> QED
        BY <1>5, <2>1, <2>2, <2>3, <2>4, <2>5, Quietly DEF BookInv, BookTyped
<1>6. ASSUME NEW a \in book, SetDefault(t, a) PROVE BookInv'
    BY <1>5, <1>6, Zenon DEF SetDefault, Place
<1>7. ASSUME NEW a \in book, Delete(t, a) PROVE BookInv'
    <2>1. "delete" \in Place /\ (a \in default) \in BOOLEAN
        BY DEF Place
    <2> QED
        BY <1>5, <1>7, <2>1, Zenon DEF Delete
<1>8. ASSUME NEW a \in book, NEW d \in BOOLEAN, Update(t, a, d) PROVE BookInv'
    <2> DEFINE p == IF d THEN "clear_others" ELSE "write"
    <2>1. p \in Place /\ (p = "clear_others" \/ (p = "write" /\ ~d))
        BY DEF Place
    <2> QED
        BY <1>5, <1>8, <2>1, Zenon DEF Update
<1> QED
    BY <1>1, <1>2, <1>3, <1>4, <1>6, <1>7, <1>8

\* What a request that writes owes: the others only lose sight of their addresses, and
\* are late if it marks a default.
LEMMA Loudly ==
    ASSUME BookInv, NEW t \in Task, NEW r \in Entry, NEW marks \in BOOLEAN, Wrote(t, r, marks),
           UNCHANGED <<clock, requests>>, faults' \in Nat,
           book' \subseteq 1..clock, default' \subseteq book', failed' \in BOOLEAN,
           failed => failed', unseen' \in Nat,
           r.addr \in 0..clock, r.pc # "idle" => r.addr # 0, r.pc = "idle" => r = Idle,
           marks \/ default' \subseteq default,
           \/ raced' \/ failed'
           \/ /\ \A a, b \in default' : a = b
              /\ r.pc \in {"add", "write", "delete"} /\ r.mark /\ ~r.late
                    => default' \subseteq {r.addr}
              /\ r.pc \in {"newest", "promote"} /\ ~r.late => default' = {},
           r.pc \in {"clear_add", "add"} => r.seen < MaxAddresses,
           r.pc \notin {"delete", "promote"},
           Cardinality(book') <= MaxAddresses + unseen'
    PROVE  BookInv'
<1>1. /\ req' \in [Task -> Entry] /\ req'[t] = r
      /\ \A x \in Task \ {t} :
            /\ req'[x].pc = req[x].pc /\ req'[x].addr = req[x].addr
            /\ req'[x].mark = req[x].mark /\ req'[x].seen = req[x].seen
            /\ req[x].pc # "idle" => /\ req'[x].stirred
                                     /\ req'[x].late = (req[x].late \/ marks)
            /\ req[x].pc = "idle" => req'[x] = Idle
      /\ raced' = (raced \/ (marks /\ req[t].late))
    BY Writes, Zenon DEF BookInv
<1>2. BookTyped'
    <2>1. ASSUME NEW x \in Task
          PROVE  /\ req'[x].addr \in 0..clock /\ (req'[x].pc # "idle" => req'[x].addr # 0)
                 /\ req'[x].pc = "idle" => req'[x] = Idle
        BY <1>1, <2>1 DEF BookInv, BookTyped
    <2>2. raced' \in BOOLEAN
        BY <1>1, Zenon
    <2> QED
        BY <1>1, <2>1, <2>2 DEF BookInv, BookTyped
<1>3. OneMarked'
    <2> SUFFICES ASSUME ~raced', ~failed' PROVE OneMarked'
        BY Zenon DEF OneMarked
    <2>1. ~raced /\ ~failed
        BY <1>1, Zenon
    <2>2. \A x \in Task : ~req[x].late => Alone(x)
        BY <2>1, Zenon DEF BookInv, OneMarked
    <2>3. ASSUME NEW x \in Task \ {t}, ~req'[x].late PROVE Alone(x)'
        <3>1. CASE req[x].pc = "idle"
            BY <3>1, <1>1 DEF Alone
        <3>2. CASE req[x].pc # "idle"
            <4>1. ~req[x].late /\ ~marks
                BY <3>2, <2>3, <1>1, Zenon
            <4>2. Alone(x) /\ default' \subseteq default
                BY <4>1, <2>2
            <4> QED
                BY <4>2, <1>1 DEF Alone
        <3> QED
            BY <3>1, <3>2
    <2>4. ~req'[t].late => Alone(t)'
        BY <1>1 DEF Alone
    <2> QED
        BY <2>3, <2>4, Zenon DEF OneMarked
<1>4. Counted'
    BY <1>1 DEF BookInv, Counted
<1>5. Present'
    BY <1>1, Zenon DEF Present
<1> QED
    BY <1>2, <1>3, <1>4, <1>5 DEF BookInv

\* The steps that write.
LEMMA BookLoud ==
    ASSUME BookInv, NEW t \in Task,
           Clear(t) \/ AddWrite(t) \/ Write(t) \/ DeleteWrite(t) \/ Promote(t)
    PROVE  BookInv'
<1> DEFINE a == req[t].addr
<1>0. /\ clock \in Nat /\ requests \in Nat /\ faults \in Nat /\ unseen \in Nat
      /\ book \subseteq 1..clock /\ default \subseteq book /\ raced \in BOOLEAN
      /\ failed \in BOOLEAN /\ req[t] \in Entry /\ a \in 0..clock /\ a \in Nat
    BY DEF BookInv, BookTyped, Entry
<1>1. /\ IsFiniteSet(book) /\ Cardinality(book) \in Nat
      /\ Cardinality(book) <= MaxAddresses + unseen
    BY BookFinite DEF BookInv, Counted
<1>2. \/ raced \/ failed
      \/ (\A b, c \in default : b = c) /\ (~req[t].late => Alone(t))
    BY Zenon DEF BookInv, OneMarked
<1>3. /\ Idle \in Entry /\ Idle.pc = "idle" /\ Idle.addr \in 0..clock
    BY <1>0, IdleEntry
<1>4. CASE Clear(t)
    <2> DEFINE p == IF req[t].pc = "clear_add" THEN "add" ELSE "write"
               r == [req[t] EXCEPT !.pc = p]
    <2>1. /\ r \in Entry /\ r.pc = p /\ r.addr = a /\ r.seen = req[t].seen
          /\ r.late = req[t].late /\ p \in {"add", "write"}
        BY <1>0 DEF Entry, Place
    <2>2. p = "add" => r.seen < MaxAddresses
        BY <1>4, <2>1 DEF Clear, BookInv, Counted
    <2>3. Wrote(t, r, FALSE) /\ UNCHANGED <<book, clock, unseen, requests>>
        BY <1>4, Zenon DEF Clear
    <2>4. \/ default' \subseteq default \cap {a} /\ UNCHANGED <<failed, faults>>
          \/ failed' = TRUE /\ default' = default /\ faults' = faults + 1
        BY <1>4 DEF Clear, Fault
    <2>5. a # 0
        BY <1>4 DEF Clear, BookInv, BookTyped
    <2> HIDE DEF r, p
    <2>6. /\ default' \subseteq default /\ default' \subseteq book' /\ faults' \in Nat
          /\ failed' \in BOOLEAN /\ (failed => failed')
        <3>1. default' \subseteq default
            BY <2>4, Zenon
        <3> QED
            <4>1. default' \subseteq book'
                BY <1>0, <2>3, <3>1
            <4>2. faults' \in Nat
                BY <1>0, <2>4
            <4>3. failed' \in BOOLEAN /\ (failed => failed')
                BY <1>0, <2>4, Zenon
            <4> QED
                BY <3>1, <4>1, <4>2, <4>3
    <2>7. failed' \/ (/\ \A b, c \in default' : b = c
                      /\ r.pc \in {"add", "write", "delete"} => default' \subseteq {r.addr})
        BY <2>1, <2>4
    <2> HIDE DEF a
    <2> QED
        BY <1>0, <1>1, <2>1, <2>2, <2>3, <2>5, <2>6, <2>7, Loudly, Zenon
<1>5. CASE AddWrite(t)
    <2>1. /\ Wrote(t, Idle, req[t].mark) /\ UNCHANGED <<clock, failed, requests, faults>>
          /\ book' = book \cup {a} /\ req[t].mark \in BOOLEAN
          /\ default' = IF req[t].mark THEN default \cup {a} ELSE default
          /\ unseen' = IF Cardinality(book) > req[t].seen THEN unseen + 1 ELSE unseen
        BY <1>5, <1>0 DEF AddWrite, Entry
    <2>2. a # 0 /\ req[t].seen < MaxAddresses /\ req[t].seen \in Nat
        BY <1>5, <1>0 DEF AddWrite, BookInv, BookTyped, Counted, Entry
    <2>3. Cardinality(book') <= MaxAddresses + unseen'
        <3>1. Cardinality(book') \in Nat /\ Cardinality(book') <= Cardinality(book) + 1
            <4>1. Cardinality(book \cup {a}) = IF a \in book THEN Cardinality(book)
                                              ELSE Cardinality(book) + 1
                BY <1>1, FS_AddElement, Zenon
            <4> HIDE DEF a
            <4> QED
                BY <1>1, <2>1, <4>1
        <3> QED
            BY <1>0, <1>1, <2>1, <2>2, <3>1, LimitAssumption
    <2>4. raced' = (raced \/ (req[t].mark /\ req[t].late))
        BY <2>1, Zenon DEF Wrote
    <2>5. raced' \/ failed' \/ \A b, c \in default' : b = c
        <3>1. CASE ~req[t].mark
            BY <3>1, <1>2, <2>1, <2>4, Zenon
        <3>2. CASE req[t].mark
            <4>1. raced \/ failed \/ req[t].late \/ default \subseteq {a}
                BY <3>2, <1>2, <1>5 DEF Alone, AddWrite
            <4> HIDE DEF a
            <4> QED
                BY <3>2, <4>1, <2>1, <2>4, Zenon
        <3> QED
            BY <3>1, <3>2
    <2>6. req[t].mark \/ default' \subseteq default
        BY <2>1
    <2>7. book' \subseteq 1..clock /\ default' \subseteq book'
        <3>1. a \in 1..clock
            BY <1>0, <2>2
        <3> HIDE DEF a
        <3> QED
            BY <1>0, <2>1, <3>1
    <2>8. failed' \in BOOLEAN /\ faults' \in Nat /\ unseen' \in Nat /\ (failed => failed')
        BY <1>0, <2>1
    <2> HIDE DEF a
    <2> QED
        BY <1>3, <2>1, <2>3, <2>5, <2>6, <2>7, <2>8, Loudly, Zenon
<1>6. CASE Write(t)
    <2> DEFINE marks == a \in book /\ req[t].mark
    <2>1. /\ Wrote(t, Idle, marks) /\ UNCHANGED <<book, clock, failed, unseen, requests, faults>>
          /\ marks \in BOOLEAN
          /\ default' = IF marks THEN default \cup {a} ELSE default \ {a}
        BY <1>6, <1>0 DEF Write, Entry
    <2>2. raced' = (raced \/ (marks /\ req[t].late))
        BY <2>1, Zenon DEF Wrote
    <2>3. raced \/ failed \/ req[t].late \/ ~marks \/ default \subseteq {a}
        BY <1>2, <1>6 DEF Alone, Write
    <2>4. marks => a \in book
        OBVIOUS
    <2> HIDE DEF a, marks
    <2>5. raced' \/ failed' \/ \A b, c \in default' : b = c
        <3>1. CASE ~marks
            BY <3>1, <1>2, <2>1, <2>2, Zenon
        <3>2. CASE marks
            BY <3>2, <2>3, <2>1, <2>2, Zenon
        <3> QED
            BY <3>1, <3>2
    <2>6. (marks \/ default' \subseteq default) /\ default' \subseteq book'
        BY <1>0, <2>1, <2>4
    <2> QED
        BY <1>0, <1>1, <1>3, <2>1, <2>5, <2>6, Loudly
<1>7. CASE DeleteWrite(t)
    <2> DEFINE r == IF a \in book /\ req[t].mark THEN [req[t] EXCEPT !.pc = "newest"] ELSE Idle
    <2>1. /\ Wrote(t, r, FALSE) /\ UNCHANGED <<clock, failed, unseen, requests, faults>>
          /\ book' = book \ {a} /\ default' = default \ {a}
        BY <1>7, Zenon DEF DeleteWrite
    <2>2. /\ r \in Entry /\ r.pc \in {"newest", "idle"} /\ r.addr \in 0..clock
          /\ r.pc # "idle" => r.addr # 0 /\ req[t].mark /\ r.late = req[t].late
          /\ r.pc = "idle" => r = Idle
        <3>1. a # 0
            BY <1>7 DEF DeleteWrite, BookInv, BookTyped
        <3>2. CASE a \in book /\ req[t].mark
            <4>1. r = [req[t] EXCEPT !.pc = "newest"]
                BY <3>2, Zenon
            <4> HIDE DEF r
            <4> QED
                BY <3>1, <3>2, <4>1, <1>0 DEF Entry, Place
        <3>3. CASE ~(a \in book /\ req[t].mark)
            <4>1. r = Idle
                BY <3>3, Zenon
            <4> HIDE DEF r
            <4> QED
                BY <4>1, <1>3
        <3> QED
            BY <3>2, <3>3, Zenon
    <2>3. raced \/ failed \/ req[t].late \/ ~req[t].mark \/ default \subseteq {a}
        BY <1>2, <1>7 DEF Alone, DeleteWrite
    <2> HIDE DEF a, r
    <2>4. raced' = raced
        BY <1>0, <2>1, Zenon DEF Wrote
    <2>5. \/ raced' \/ failed'
          \/ /\ \A b, c \in default' : b = c
             /\ r.pc = "newest" /\ ~r.late => default' = {}
        BY <1>2, <2>1, <2>2, <2>3, <2>4
    <2>6. Cardinality(book') <= Cardinality(book) /\ Cardinality(book') \in Nat
        BY <1>1, <2>1, FS_Subset, FS_CardinalityType
    <2>7. Cardinality(book') <= MaxAddresses + unseen'
        BY <1>0, <1>1, <2>1, <2>6, LimitAssumption
    <2>8. book' \subseteq 1..clock /\ default' \subseteq book' /\ default' \subseteq default
        BY <1>0, <2>1
    <2> QED
        BY <1>0, <2>1, <2>2, <2>5, <2>7, <2>8, Loudly, Zenon
<1>8. CASE Promote(t)
    <2>1. req[t].pc = "promote" /\ UNCHANGED <<book, clock, failed, unseen, requests>>
        BY <1>8, Zenon DEF Promote
    <2>2. raced \/ failed \/ req[t].late \/ default = {}
        BY <1>2, <2>1 DEF Alone
    <2>3. CASE /\ default' = IF a \in book THEN default \cup {a} ELSE default
               /\ Wrote(t, Idle, a \in book)
               /\ UNCHANGED faults
        <3>a. (a \in book) \in BOOLEAN
            OBVIOUS
        <3>1. raced' = (raced \/ (a \in book /\ req[t].late)) /\ (a \in book) \in BOOLEAN
            BY <2>3, <3>a, Zenon DEF Wrote
        <3> HIDE DEF a
        <3>2. raced' \/ failed' \/ \A b, c \in default' : b = c
            <4>1. CASE a \in book
                BY <4>1, <2>1, <2>2, <2>3, <3>1, Zenon
            <4>2. CASE a \notin book
                BY <4>2, <1>2, <2>1, <2>3, <3>1, Zenon
            <4> QED
                BY <4>1, <4>2
        <3>3. (a \in book \/ default' \subseteq default) /\ default' \subseteq book'
            BY <1>0, <2>1, <2>3
        <3> QED
            BY <1>0, <1>1, <1>3, <2>1, <2>3, <3>1, <3>2, <3>3, Loudly, Zenon
    <2>4. CASE Fault /\ Done(t) /\ UNCHANGED <<default, raced>>
        <3>1. Quiet(t, Idle)
            BY <2>1, <2>4, IdleEntry, Zenon DEF Done, Quiet
        <3> QED
            BY <3>1, <2>1, <2>4, <1>0, Quietly, IdleEntry DEF Fault
    <2> QED
        BY <1>8, <2>3, <2>4, Zenon DEF Promote
<1> QED
    BY <1>4, <1>5, <1>6, <1>7, <1>8

\* The invariant is inductive.
THEOREM BookInductive == Spec => []BookInv
<1>1. BookInv /\ [Next]_vars => BookInv'
    <2> SUFFICES ASSUME BookInv, [Next]_vars PROVE BookInv'
        OBVIOUS
    <2>1. CASE Next
        BY <2>1, BookQuiet, BookLoud, Zenon DEF Next
    <2>2. CASE UNCHANGED vars
        <3>1. /\ BookTyped' = BookTyped /\ OneMarked' = OneMarked /\ Counted' = Counted
              /\ Present' = Present
            BY <2>2 DEF vars, BookTyped, OneMarked, Counted, Present, Alone
        <3> QED
            BY <3>1, Zenon DEF BookInv
    <2> QED
        BY <2>1, <2>2
<1> QED
    BY <1>1, BookInit, PTL DEF Spec

\* What the invariant says.
LEMMA BookSafe == BookInv => TypeOK /\ OneDefault /\ BookLimited
<1> SUFFICES ASSUME BookInv PROVE TypeOK /\ OneDefault /\ BookLimited
    OBVIOUS
<1>1. TypeOK
    <2>1. ASSUME NEW t \in Task
          PROVE  /\ req[t].pc \in {"idle", "clear_add", "clear_others", "clear", "add", "write",
                                   "delete", "newest", "promote"}
                 /\ req[t].addr \in 0..clock
                 /\ {req[t].mark, req[t].late, req[t].stirred} \subseteq BOOLEAN
        BY DEF BookInv, BookTyped, Entry, Place
    <2> QED
        BY <2>1 DEF BookInv, BookTyped, TypeOK
<1>2. OneDefault
    <2> SUFFICES ASSUME ~raced, ~failed, default # {} PROVE Cardinality(default) <= 1
        BY FS_EmptySet DEF OneDefault
    <2>1. PICK a \in default : default = {a}
        BY DEF BookInv, OneMarked
    <2>2. Cardinality(default) = 1
        BY <2>1, FS_Singleton, Zenon
    <2> QED
        BY <2>2
<1>3. BookLimited
    BY DEF BookInv, Counted, BookLimited
<1> QED
    BY <1>1, <1>2, <1>3

\* A step that ends the deletion of the default.
LEMMA BookSuccessor ==
    ASSUME BookInv, Next, NEW t \in Task,
           req[t].pc \in {"delete", "newest", "promote"}, req'[t] = Idle,
           req[t].mark, ~req[t].stirred, faults' = faults
    PROVE  default' # {} \/ book' = {}
<1>1. PICK u \in Task :
        \/ Clear(u) \/ AddWrite(u) \/ Write(u) \/ DeleteWrite(u) \/ Newest(u) \/ Promote(u)
        \/ Drop(u)
        \/ \E d \in BOOLEAN : Add(u, d)
        \/ \E a \in book : SetDefault(u, a) \/ Delete(u, a) \/ \E d \in BOOLEAN : Update(u, a, d)
    BY Zenon DEF Next
<1>2. /\ req \in [Task -> Entry] /\ req[t] \in Entry /\ Idle.pc = "idle" /\ req[t] # Idle
    BY IdleEntry DEF BookInv, BookTyped
<1>3. u = t
    <2> SUFFICES ASSUME u # t PROVE FALSE
        OBVIOUS
    <2>1. ASSUME NEW r, NEW marks, Wrote(u, r, marks) PROVE FALSE
        <3>1. req'[t] = [req[t] EXCEPT !.stirred = TRUE, !.late = @ \/ marks]
            BY <2>1, <1>2, Zenon DEF Wrote
        <3>2. req'[t].pc = req[t].pc
            BY <3>1, <1>2 DEF Entry
        <3> QED
            BY <3>2, <1>2
    <2>2. req'[t] # req[t]
        BY <1>2
    <2>3. ASSUME NEW r, req' = [req EXCEPT ![u] = r] PROVE FALSE
        BY <2>3, <2>2, <1>2
    <2>4. CASE Newest(u)
        BY <2>4, <2>2, <2>3, <1>2 DEF Newest, Done
    <2>5. CASE Clear(u) \/ AddWrite(u) \/ Write(u) \/ DeleteWrite(u) \/ Promote(u)
        BY <2>1, <2>3, <2>5, Zenon DEF Clear, AddWrite, Write, DeleteWrite, Promote, Done
    <2>6. CASE \/ Drop(u) \/ \E d \in BOOLEAN : Add(u, d)
               \/ \E a \in book : SetDefault(u, a) \/ Delete(u, a) \/ \E d \in BOOLEAN : Update(u, a, d)
        BY <2>3, <2>6, Zenon DEF Drop, Add, SetDefault, Delete, Update, Begin, Done
    <2> QED
        BY <1>1, <2>4, <2>5, <2>6
<1>4. CASE DeleteWrite(t)
    <2>1. req[t].addr \in book /\ req[t].pc = "delete"
        BY <1>4 DEF DeleteWrite, BookInv, Present
    <2>2. req'[t] = [req[t] EXCEPT !.pc = "newest"]
        BY <1>4, <2>1, Zenon DEF DeleteWrite, Wrote
    <2>3. req'[t].pc = "newest"
        BY <2>2, <1>2 DEF Entry
    <2> QED
        BY <2>3, <1>2
<1>5. CASE Newest(t)
    <2>1. CASE book = {}
        BY <1>5, <2>1 DEF Newest
    <2>2. CASE book # {}
        <3>1. req'[t].pc = "promote"
            BY <1>5, <2>2, <1>2 DEF Newest, Entry
        <3> QED
            BY <3>1, <1>2
    <2> QED
        BY <2>1, <2>2
<1>6. CASE Promote(t)
    <2>1. req[t].addr \in book /\ faults \in Nat
        BY <1>6 DEF Promote, BookInv, BookTyped, Present
    <2> QED
        BY <1>6, <2>1 DEF Promote, Fault
<1>7. ~(Clear(t) \/ AddWrite(t) \/ Write(t))
    BY Zenon DEF Clear, AddWrite, Write
<1>8. ~Drop(t)
    BY DEF Drop, Fault, BookInv, BookTyped
<1>9. ~(\/ \E d \in BOOLEAN : Add(t, d)
        \/ \E a \in book : SetDefault(t, a) \/ Delete(t, a) \/ \E d \in BOOLEAN : Update(t, a, d))
    BY <1>2, Zenon DEF Add, SetDefault, Delete, Update, Begin
<1> QED
    BY <1>1, <1>3, <1>4, <1>5, <1>6, <1>7, <1>8, <1>9

\* A user's addresses have one default and stay within MAX_ADDRESSES, and the deletion of
\* the default leaves another one, but for requests that crossed and statements that
\* failed (users/mod.rs).
THEOREM Addresses == Spec => AddressBookSafe
<1>1. BookInv /\ [Next]_vars =>
        [\A t \in Task :
            /\ req[t].pc \in {"delete", "newest", "promote"} /\ req'[t] = Idle
            /\ req[t].mark /\ ~req[t].stirred /\ faults' = faults
            => default' # {} \/ book' = {}]_vars
    BY BookSuccessor, Zenon
<1>2. Spec => Successor
    BY <1>1, BookInductive, PTL DEF Spec, Successor
<1> QED
    BY <1>2, BookInductive, BookSafe, PTL DEF AddressBookSafe
=============================================================================

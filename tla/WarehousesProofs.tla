-------------------------- MODULE WarehousesProofs --------------------------
(***************************************************************************)
(* What Warehouses guarantees for any number of requests, product writes   *)
(* and faults: about the instance W of Profile.                            *)
(***************************************************************************)
EXTENDS Profile, WellFoundedInduction, TLAPS

HousePlace == {"idle", "create", "select", "write", "guard", "oldest", "promote", "delete"}

HouseEntry == [pc : HousePlace, id : Nat, mark : BOOLEAN, todo : SUBSET Nat, next : Nat,
          stirred : BOOLEAN, late : BOOLEAN]

\* A request carries what its place needs.
Carries(r) ==
    /\ r \in HouseEntry
    /\ r.pc = "idle" => r = W!Idle
    /\ r.pc # "idle" => r.id # 0
    /\ r.pc \in {"oldest", "promote"} => r.mark
    /\ r.pc \notin {"promote", "delete"} => r.next = 0
    /\ r.pc = "promote" => r.next # 0

\* The types.
HouseTyped ==
    /\ hclock \in Nat /\ house \subseteq 1..hclock /\ hdefault \subseteq house
    /\ refs \subseteq 1..hclock /\ unguarded \subseteq 1..hclock
    /\ hraced \in BOOLEAN /\ halved \in BOOLEAN /\ hrequests \in Nat /\ hfaults \in Nat
    /\ hreq \in [Task -> HouseEntry]
    /\ \A t \in Task :
          /\ Carries(hreq[t]) /\ hreq[t].todo \subseteq 1..hclock
          /\ hreq[t].id \in 0..hclock /\ hreq[t].next \in 0..hclock

\* A deletion between promotion and deletion.
Half(t) == hreq[t].pc = "delete" /\ hreq[t].next # 0

\* A request that is not late finds no deletion halfway and no default but those it
\* clears and its own.
Sole(t) ==
    /\ hreq[t].pc # "idle" => \A u \in Task \ {t} : ~Half(u)
    /\ hreq[t].pc \in {"create", "write"} /\ hreq[t].mark
          => hdefault \subseteq hreq[t].todo \cup {hreq[t].id}
    /\ hreq[t].pc \in {"guard", "oldest", "promote"} /\ hreq[t].mark => hdefault \subseteq {hreq[t].id}

OneLeft ==
    \/ hraced \/ halved
    \/ /\ \A a, b \in hdefault : (\A t \in Task : Half(t) => hreq[t].id \notin {a, b}) => a = b
       /\ \A t \in Task : ~hreq[t].late => Sole(t)

\* What a deletion that nobody disturbed relies on.
Relies(r) ==
    ~r.stirred =>
        /\ r.pc = "promote" => r.next \in house /\ r.next # r.id
        /\ r.pc = "delete" /\ r.mark => \/ r.next = 0 /\ house \subseteq {r.id}
                                        \/ r.next # r.id /\ r.next \in hdefault

\* A deletion past its guard: links to its warehouse were made since.
Passed(r) == r.pc \in {"oldest", "promote", "delete"} /\ r.id \in refs => r.id \in unguarded

HouseInv ==
    /\ HouseTyped /\ OneLeft /\ W!NoDangling
    /\ \A t \in Task : Relies(hreq[t]) /\ Passed(hreq[t])

\* The fields of an idle request.
LEMMA HouseIdle ==
    /\ W!Idle \in HouseEntry /\ W!Idle.pc = "idle" /\ W!Idle.id = 0 /\ W!Idle.next = 0 /\ W!Idle.todo = {}
    /\ Carries(W!Idle)
<1>1. W!Idle \in HouseEntry /\ W!Idle.pc = "idle" /\ W!Idle.id = 0 /\ W!Idle.next = 0 /\ W!Idle.todo = {}
    BY DEF W!Idle, HouseEntry, HousePlace
<1> QED
    BY <1>1 DEF Carries

\* Min returns an element.
LEMMA MinWithin ==
    ASSUME NEW S \in SUBSET Nat, S # {}
    PROVE  W!Min(S) \in S
<1>1. PICK m \in S : \A y \in S : ~(<<y, m>> \in OpToRel(<, Nat))
    BY NatLessThanWellFounded, WFMin, Zenon
<1>2. S \subseteq Nat
    OBVIOUS
<1>3. \A y \in S : ~(y < m)
    BY <1>1, <1>2, Zenon DEF OpToRel
<1>4. \A y \in S : m <= y
    BY <1>2, <1>3
<1> QED
    BY <1>4, Zenon DEF W!Min

\* The initial state.
LEMMA HouseInit == W!Init => HouseInv
<1> SUFFICES ASSUME W!Init PROVE HouseInv
    OBVIOUS
<1>1. hreq \in [Task -> HouseEntry] /\ \A t \in Task : hreq[t] = W!Idle
    BY HouseIdle DEF W!Init
<1>2. \A t \in Task :
          /\ Carries(hreq[t]) /\ hreq[t].todo \subseteq 1..hclock
          /\ hreq[t].id \in 0..hclock /\ hreq[t].next \in 0..hclock
    BY <1>1, HouseIdle DEF W!Init
<1>3. /\ hclock \in Nat /\ house \subseteq 1..hclock /\ hdefault \subseteq house
      /\ refs \subseteq 1..hclock /\ unguarded \subseteq 1..hclock
      /\ hraced \in BOOLEAN /\ halved \in BOOLEAN /\ hrequests \in Nat /\ hfaults \in Nat
    BY Zenon DEF W!Init
<1>4. HouseTyped
    BY <1>1, <1>2, <1>3, Zenon DEF HouseTyped
<1>5. OneLeft
    BY <1>1, HouseIdle DEF W!Init, OneLeft, Sole, Half
<1>6. W!NoDangling /\ \A t \in Task : Relies(hreq[t]) /\ Passed(hreq[t])
    BY <1>1, HouseIdle DEF W!Init, W!NoDangling, Relies, Passed
<1> QED
    BY <1>4, <1>5, <1>6 DEF HouseInv

\* A write: the others go on where they were and know of it.
HouseTold(t, r, marks) ==
    /\ hreq' \in [Task -> HouseEntry] /\ hreq'[t] = r
    /\ \A x \in Task \ {t} :
          /\ hreq'[x].pc = hreq[x].pc /\ hreq'[x].id = hreq[x].id
          /\ hreq'[x].mark = hreq[x].mark /\ hreq'[x].todo = hreq[x].todo
          /\ hreq'[x].next = hreq[x].next
          /\ hreq[x].pc # "idle" => /\ hreq'[x].stirred
                                    /\ hreq'[x].late = (hreq[x].late \/ marks)
          /\ hreq[x].pc = "idle" => hreq'[x] = W!Idle
    /\ hraced' = (hraced \/ (marks /\ hreq[t].late))

LEMMA HouseWrites ==
    ASSUME HouseTyped, NEW t \in Task, NEW r \in HouseEntry, NEW marks \in BOOLEAN,
           W!Wrote(t, r, marks)
    PROVE  HouseTold(t, r, marks)
<1>1. W!Idle \in HouseEntry /\ W!Idle.pc = "idle"
    BY HouseIdle
<1>2. ASSUME NEW x \in Task
      PROVE  [hreq[x] EXCEPT !.stirred = TRUE, !.late = @ \/ marks] \in HouseEntry
    BY Zenon DEF HouseTyped, HouseEntry
<1>3. hreq' \in [Task -> HouseEntry]
    BY <1>1, <1>2, Zenon DEF W!Wrote
<1>4. ASSUME NEW x \in Task \ {t}
      PROVE  /\ hreq'[x].pc = hreq[x].pc /\ hreq'[x].id = hreq[x].id
             /\ hreq'[x].mark = hreq[x].mark /\ hreq'[x].todo = hreq[x].todo
             /\ hreq'[x].next = hreq[x].next
             /\ hreq[x].pc # "idle" => /\ hreq'[x].stirred
                                       /\ hreq'[x].late = (hreq[x].late \/ marks)
             /\ hreq[x].pc = "idle" => hreq'[x] = W!Idle
    <2>1. CASE hreq[x].pc = "idle"
        <3>1. hreq[x] = W!Idle
            BY <2>1 DEF HouseTyped, Carries
        <3>2. hreq'[x] = W!Idle
            BY <3>1, Zenon DEF W!Wrote
        <3> QED
            BY <3>1, <3>2, <1>1
    <2>2. CASE hreq[x].pc # "idle"
        <3>1. hreq'[x] = [hreq[x] EXCEPT !.stirred = TRUE, !.late = @ \/ marks]
            BY <2>2, <1>1, Zenon DEF W!Wrote
        <3> QED
            BY <3>1, <2>2 DEF HouseTyped, HouseEntry
    <2> QED
        BY <2>1, <2>2
<1> QED
    BY <1>3, <1>4, Zenon DEF W!Wrote, HouseTold

\* Request r of t, if it is not late, finds no default but those it clears and its own.
Finds(t, r) ==
    \/ hraced \/ halved \/ r.late
    \/ /\ r.pc # "idle" => \A u \in Task \ {t} : ~Half(u)
       /\ r.pc \in {"create", "write"} /\ r.mark => hdefault \subseteq r.todo \cup {r.id}
       /\ r.pc \in {"guard", "oldest", "promote"} /\ r.mark => hdefault \subseteq {r.id}

\* What a new place of a request owes that writes nothing.
LEMMA HouseQuietly ==
    ASSUME HouseInv, NEW t \in Task, NEW r, Carries(r), hreq' = [hreq EXCEPT ![t] = r],
           UNCHANGED <<house, hdefault, refs, hraced, unguarded>>,
           hclock' \in Nat, hclock' >= hclock, hrequests' \in Nat, hfaults' \in Nat,
           halved' \in BOOLEAN, halved => halved', Half(t) => halved',
           r.todo \subseteq 1..hclock', r.id \in 0..hclock', r.next \in 0..hclock',
           ~(r.pc = "delete" /\ r.next # 0),
           Finds(t, r), Relies(r), Passed(r)
    PROVE  HouseInv'
<1>1. /\ hreq' \in [Task -> HouseEntry] /\ hreq'[t] = r
      /\ \A x \in Task \ {t} : hreq'[x] = hreq[x]
    BY DEF HouseInv, HouseTyped, Carries
<1>2. HouseTyped'
    <2>1. ASSUME NEW x \in Task
          PROVE  /\ Carries(hreq'[x]) /\ hreq'[x].todo \subseteq 1..hclock'
                 /\ hreq'[x].id \in 0..hclock' /\ hreq'[x].next \in 0..hclock'
        <3>1. CASE x = t
            BY <3>1, <1>1
        <3>2. CASE x # t
            <4>1. /\ hreq'[x] = hreq[x] /\ Carries(hreq[x]) /\ hreq[x].todo \subseteq 1..hclock
                  /\ hreq[x].id \in 0..hclock /\ hreq[x].next \in 0..hclock /\ hclock \in Nat
                BY <3>2, <1>1 DEF HouseInv, HouseTyped
            <4> QED
                BY <4>1
        <3> QED
            BY <3>1, <3>2
    <2>2. /\ house \subseteq 1..hclock' /\ refs \subseteq 1..hclock' /\ unguarded \subseteq 1..hclock'
          /\ hdefault \subseteq house /\ hraced \in BOOLEAN
        BY DEF HouseInv, HouseTyped
    <2>3. \A x \in Task : (Carries(hreq[x]))' <=> Carries(hreq'[x])
        BY DEF Carries, HouseEntry, W!Idle
    <2> QED
        BY <1>1, <2>1, <2>2, <2>3, Zenon DEF HouseTyped
<1>3. OneLeft'
    <2> SUFFICES ASSUME ~hraced, ~halved' PROVE OneLeft'
        BY Zenon DEF OneLeft
    <2>1. /\ \A a, b \in hdefault : (\A x \in Task : Half(x) => hreq[x].id \notin {a, b}) => a = b
          /\ \A x \in Task : ~hreq[x].late => Sole(x)
          /\ ~Half(t)
        BY Zenon DEF HouseInv, OneLeft
    <2>2. ~Half(t)' /\ \A x \in Task \ {t} : Half(x)' <=> Half(x)
        BY <1>1 DEF Half
    <2>3. ASSUME NEW x \in Task, ~hreq'[x].late PROVE Sole(x)'
        <3>1. CASE x = t
            BY <3>1, <2>2, <2>3, <1>1 DEF Sole, Finds
        <3>2. CASE x # t
            <4>1. Sole(x) /\ hreq'[x] = hreq[x]
                BY <3>2, <2>1, <2>3, <1>1
            <4> QED
                BY <4>1, <2>2 DEF Sole
        <3> QED
            BY <3>1, <3>2
    <2>4. ASSUME NEW a \in hdefault, NEW b \in hdefault,
                 \A x \in Task : Half(x)' => hreq'[x].id \notin {a, b}
          PROVE  a = b
        BY <2>1, <2>2, <2>4, <1>1
    <2> QED
        BY <2>3, <2>4 DEF OneLeft
<1>4. W!NoDangling'
    BY DEF HouseInv, W!NoDangling
<1>5. \A x \in Task : (Relies(hreq[x]))' /\ (Passed(hreq[x]))'
    BY <1>1 DEF HouseInv, Relies, Passed
<1> QED
    BY <1>2, <1>3, <1>4, <1>5, Zenon DEF HouseInv

LEMMA HouseStays ==
    ASSUME HouseInv, NEW t \in Task, NEW r, Carries(r), hreq' = [hreq EXCEPT ![t] = r],
           UNCHANGED <<house, hdefault, refs, hraced, halved, unguarded>>,
           hclock' = hclock \/ hclock' = hclock + 1, hrequests' \in Nat, hfaults' \in Nat, ~Half(t),
           r.todo \subseteq 1..hclock, r.id \in 0..hclock', r.next \in 0..hclock,
           ~(r.pc = "delete" /\ r.next # 0), Finds(t, r), Relies(r), Passed(r)
    PROVE  HouseInv'
<1>1. hclock \in Nat /\ halved \in BOOLEAN
    BY DEF HouseInv, HouseTyped
<1>2. /\ hclock' \in Nat /\ hclock' >= hclock /\ r.todo \subseteq 1..hclock' /\ r.next \in 0..hclock'
      /\ halved' \in BOOLEAN /\ (halved => halved') /\ (Half(t) => halved')
    BY <1>1
<1> QED
    BY <1>2, HouseQuietly, Zenon

\* What a request that writes owes: the others are disturbed, and late if it marks a
\* default.
LEMMA HouseLoudly ==
    ASSUME HouseInv, NEW t \in Task, NEW r, Carries(r), NEW marks \in BOOLEAN,
           W!Wrote(t, r, marks), UNCHANGED <<refs, hclock, halved, unguarded, hrequests, hfaults>>,
           house' \subseteq 1..hclock, hdefault' \subseteq house',
           r.todo \subseteq 1..hclock, r.id \in 0..hclock, r.next \in 0..hclock,
           marks \/ hdefault' \subseteq hdefault,
           r.pc = "delete" /\ r.next # 0 => marks,
           r.pc \notin {"guard", "oldest", "promote"},
           \/ hraced' \/ halved
           \/ /\ \A a, b \in hdefault' :
                    /\ \A x \in Task \ {t} : Half(x) => hreq[x].id \notin {a, b}
                    /\ r.pc = "delete" /\ r.next # 0 => r.id \notin {a, b}
                    => a = b
              /\ r.pc # "idle" /\ ~r.late => \A u \in Task \ {t} : ~Half(u)
              /\ r.pc \in {"create", "write"} /\ r.mark /\ ~r.late
                    => hdefault' \subseteq r.todo \cup {r.id},
           (r.pc = "delete" /\ r.mark /\ ~r.stirred => r.next # r.id /\ r.next \in hdefault'),
           Passed(r), refs \subseteq house' \cup unguarded
    PROVE  HouseInv'
<1>0. r \in HouseEntry /\ HouseTyped
    BY DEF Carries, HouseInv
<1>a. HouseTold(t, r, marks)
    BY <1>0, HouseWrites, Zenon
<1>1. /\ hreq' \in [Task -> HouseEntry] /\ hreq'[t] = r
      /\ \A x \in Task \ {t} :
            /\ hreq'[x].pc = hreq[x].pc /\ hreq'[x].id = hreq[x].id
            /\ hreq'[x].mark = hreq[x].mark /\ hreq'[x].todo = hreq[x].todo
            /\ hreq'[x].next = hreq[x].next
            /\ hreq[x].pc # "idle" => /\ hreq'[x].stirred
                                      /\ hreq'[x].late = (hreq[x].late \/ marks)
            /\ hreq[x].pc = "idle" => hreq'[x] = W!Idle
      /\ hraced' = (hraced \/ (marks /\ hreq[t].late))
    BY <1>a, Zenon DEF HouseTold
<1>2. HouseTyped'
    <2>1. ASSUME NEW x \in Task
          PROVE  /\ Carries(hreq'[x]) /\ hreq'[x].todo \subseteq 1..hclock
                 /\ hreq'[x].id \in 0..hclock /\ hreq'[x].next \in 0..hclock
        <3>1. CASE x = t
            BY <3>1, <1>1
        <3>2. CASE x # t
            <4>1. /\ Carries(hreq[x]) /\ hreq[x].todo \subseteq 1..hclock
                  /\ hreq[x].id \in 0..hclock /\ hreq[x].next \in 0..hclock
                BY DEF HouseInv, HouseTyped
            <4>2. hreq'[x] \in HouseEntry
                BY <1>1
            <4> QED
                BY <3>2, <4>1, <4>2, <1>1 DEF Carries
        <3> QED
            BY <3>1, <3>2
    <2>2. \A x \in Task : (Carries(hreq[x]))' <=> Carries(hreq'[x])
        BY DEF Carries, HouseEntry, W!Idle
    <2>3. hraced' \in BOOLEAN
        BY <1>1, Zenon
    <2>4. /\ hclock \in Nat /\ hrequests \in Nat /\ hfaults \in Nat /\ halved \in BOOLEAN
          /\ refs \subseteq 1..hclock /\ unguarded \subseteq 1..hclock
        BY DEF HouseInv, HouseTyped
    <2> QED
        BY <1>1, <2>1, <2>2, <2>3, <2>4, Zenon DEF HouseTyped
<1>3. OneLeft'
    <2> SUFFICES ASSUME ~hraced', ~halved PROVE OneLeft'
        BY Zenon DEF OneLeft
    <2>1. /\ \A x \in Task : ~hreq[x].late => Sole(x)
          /\ ~hraced
        BY <1>1, Zenon DEF HouseInv, OneLeft
    <2>2. /\ Half(t)' <=> (r.pc = "delete" /\ r.next # 0)
          /\ \A x \in Task \ {t} : Half(x)' <=> Half(x)
        BY <1>1 DEF Half
    <2>3. ASSUME NEW x \in Task, ~hreq'[x].late PROVE Sole(x)'
        <3>1. CASE x = t
            BY <3>1, <2>2, <2>3, <1>1, Zenon DEF Sole
        <3>2. CASE x # t /\ hreq[x].pc = "idle"
            BY <3>2, <1>1 DEF Sole
        <3>3. CASE x # t /\ hreq[x].pc # "idle"
            <4>1. ~hreq[x].late /\ ~marks
                BY <3>3, <2>3, <1>1, Zenon
            <4>2. Sole(x) /\ hdefault' \subseteq hdefault /\ ~Half(t)'
                BY <4>1, <2>1, <2>2, Zenon
            <4>3. \A u \in Task \ {x} : ~Half(u)'
                BY <4>2, <2>2, <3>3 DEF Sole
            <4> QED
                BY <4>2, <4>3, <3>3, <1>1, Zenon DEF Sole
        <3> QED
            BY <3>1, <3>2, <3>3
    <2>4. ASSUME NEW a \in hdefault', NEW b \in hdefault',
                 \A x \in Task : Half(x)' => hreq'[x].id \notin {a, b}
          PROVE  a = b
        BY <2>2, <2>4, <1>1, Zenon
    <2> QED
        BY <2>3, <2>4 DEF OneLeft
<1>4. W!NoDangling'
    BY DEF W!NoDangling
<1>5. ASSUME NEW x \in Task PROVE (Relies(hreq[x]))' /\ (Passed(hreq[x]))'
    <2>1. CASE x = t
        BY <2>1, <1>1 DEF Relies, Passed
    <2>2. CASE x # t
        BY <2>2, <1>1, Zenon DEF HouseInv, Relies, Passed, W!Idle
    <2> QED
        BY <2>1, <2>2
<1> QED
    BY <1>2, <1>3, <1>4, <1>5, Zenon DEF HouseInv

\* The steps that write nothing.
LEMMA HouseQuiet ==
    ASSUME HouseInv, NEW t \in Task,
           \/ W!Select(t) \/ W!Guard(t) \/ W!Oldest(t) \/ W!Drop(t)
           \/ \E d \in BOOLEAN : W!Create(t, d) \/ \E w \in house : W!Update(t, w, d)
           \/ \E w \in house : W!Delete(t, w)
    PROVE  HouseInv'
<1>0. /\ hclock \in Nat /\ hrequests \in Nat /\ hfaults \in Nat /\ halved \in BOOLEAN
      /\ house \subseteq 1..hclock /\ hdefault \subseteq house /\ hreq \in [Task -> HouseEntry]
      /\ Carries(hreq[t]) /\ hreq[t].todo \subseteq 1..hclock
      /\ hreq[t].id \in 0..hclock /\ hreq[t].next \in 0..hclock /\ hreq[t] \in HouseEntry
    BY Zenon DEF HouseInv, HouseTyped
<1>1. \/ hraced \/ halved
      \/ /\ \A a, b \in hdefault : (\A x \in Task : Half(x) => hreq[x].id \notin {a, b}) => a = b
         /\ ~hreq[t].late => Sole(t)
    BY Zenon DEF HouseInv, OneLeft
<1>2. Relies(hreq[t]) /\ Passed(hreq[t])
    BY DEF HouseInv
<1>3. /\ Carries(W!Idle) /\ W!Idle.todo = {} /\ W!Idle.id = 0 /\ W!Idle.next = 0 /\ W!Idle.pc = "idle"
      /\ Relies(W!Idle) /\ Passed(W!Idle)
    BY HouseIdle DEF Relies, Passed
<1>a. /\ Finds(t, W!Idle) /\ W!Idle.todo \subseteq 1..hclock /\ W!Idle.id \in 0..hclock
      /\ W!Idle.next \in 0..hclock /\ ~(W!Idle.pc = "delete" /\ W!Idle.next # 0)
    BY <1>0, <1>3 DEF Finds
<1>4. CASE W!Select(t)
    <2> DEFINE r == [hreq[t] EXCEPT !.pc = "write", !.todo = hdefault \ {hreq[t].id}]
    <2>1. hreq[t].pc = "select" /\ hdefault \ {hreq[t].id} \in SUBSET Nat
        BY <1>4, <1>0 DEF W!Select
    <2>2. /\ r \in HouseEntry /\ r.pc = "write" /\ r.todo = hdefault \ {hreq[t].id}
          /\ r.id = hreq[t].id /\ r.next = hreq[t].next /\ r.late = hreq[t].late
        BY <1>0, <2>1, Zenon DEF HouseEntry, HousePlace
    <2>3. hreq' = [hreq EXCEPT ![t] = r]
        BY <1>4, <1>0, Zenon DEF W!Select
    <2> HIDE DEF r
    <2>4. Carries(r) /\ Relies(r) /\ Passed(r) /\ ~Half(t)
        BY <1>0, <2>1, <2>2, Zenon DEF Carries, Relies, Passed, Half
    <2>5. r.todo \subseteq 1..hclock
        BY <1>0, <2>2, Zenon
    <2>6. \/ hraced \/ halved \/ r.late
          \/ /\ \A u \in Task \ {t} : ~Half(u)
             /\ hdefault \subseteq r.todo \cup {r.id}
        BY <1>1, <2>1, <2>2, Zenon DEF Sole
    <2>7. UNCHANGED <<house, hdefault, refs, hclock, hraced, halved, unguarded, hrequests, hfaults>>
        BY <1>4 DEF W!Select
    <2> QED
        <3>1. Finds(t, r) /\ ~(r.pc = "delete" /\ r.next # 0)
            BY <2>2, <2>6 DEF Finds
        <3>2. /\ hclock' = hclock /\ hrequests' \in Nat /\ hfaults' \in Nat
              /\ r.id \in 0..hclock' /\ r.next \in 0..hclock
            BY <1>0, <2>2, <2>7
        <3> QED
            BY <2>3, <2>4, <2>5, <2>7, <3>1, <3>2, HouseStays, Zenon
<1>5. CASE W!Guard(t)
    <2>1. /\ hreq[t].pc = "guard"
          /\ UNCHANGED <<house, hdefault, refs, hclock, hraced, halved, unguarded, hrequests, hfaults>>
        BY <1>5 DEF W!Guard
    <2>2. ~Half(t)
        BY <2>1 DEF Half
    <2>3. CASE hreq[t].id \in refs
        <3>1. hreq' = [hreq EXCEPT ![t] = W!Idle]
            BY <1>5, <2>3 DEF W!Guard, W!Done
        <3> QED
            BY <1>0, <1>3, <1>a, <2>1, <2>2, <3>1, HouseStays, Zenon
    <2>4. CASE hreq[t].id \notin refs
        <3> DEFINE p == IF hreq[t].mark THEN "oldest" ELSE "delete"
                   r == [hreq[t] EXCEPT !.pc = p]
        <3>1. p \in HousePlace /\ p \in {"oldest", "delete"} /\ (hreq[t].mark <=> p = "oldest")
            BY DEF HousePlace
        <3>2. hreq' = [hreq EXCEPT ![t] = r]
            BY <1>5, <2>4, <1>0 DEF W!Guard
        <3> HIDE DEF p
        <3>3. /\ r \in HouseEntry /\ r.pc = p /\ r.todo = hreq[t].todo /\ r.mark = hreq[t].mark
              /\ r.id = hreq[t].id /\ r.next = hreq[t].next /\ r.late = hreq[t].late
            BY <1>0, <3>1 DEF HouseEntry
        <3> HIDE DEF r
        <3>4. Carries(r) /\ Relies(r) /\ Passed(r) /\ r.next = 0
            BY <1>0, <2>1, <2>4, <3>1, <3>3, Zenon DEF Carries, Relies, Passed
        <3>5. \/ hraced \/ halved \/ r.late
              \/ /\ \A u \in Task \ {t} : ~Half(u)
                 /\ r.mark => hdefault \subseteq {r.id}
            BY <1>1, <2>1, <3>3, Zenon DEF Sole
        <3> QED
            <4>1. Finds(t, r) /\ ~(r.pc = "delete" /\ r.next # 0)
                BY <3>1, <3>3, <3>4, <3>5, Zenon DEF Finds
            <4>2. /\ hclock' = hclock /\ hrequests' \in Nat /\ hfaults' \in Nat
                  /\ r.id \in 0..hclock' /\ r.next \in 0..hclock /\ r.todo \subseteq 1..hclock
                BY <1>0, <2>1, <3>3
            <4> QED
                BY <2>1, <2>2, <3>2, <3>4, <4>1, <4>2, HouseStays, Zenon
    <2> QED
        BY <2>3, <2>4
<1>6. CASE W!Oldest(t)
    <2> DEFINE others == house \ {hreq[t].id}
               p == IF others = {} THEN "delete" ELSE "promote"
               n == IF others = {} THEN 0 ELSE W!Min(others)
               r == [hreq[t] EXCEPT !.pc = p, !.next = n]
    <2>1. /\ hreq[t].pc = "oldest"
          /\ UNCHANGED <<house, hdefault, refs, hclock, hraced, halved, unguarded, hrequests, hfaults>>
        BY <1>6 DEF W!Oldest
    <2>2. ~Half(t) /\ hreq[t].mark
        BY <1>0, <2>1, Zenon DEF Half, Carries
    <2>3. others \in SUBSET Nat
        <3>1. house \subseteq Nat
            BY <1>0
        <3> QED
            BY <3>1, Zenon
    <2>4. others # {} => n \in others
        BY <2>3, MinWithin, Zenon
    <2>5. \/ p = "delete" /\ n = 0 /\ house \subseteq {hreq[t].id}
          \/ p = "promote" /\ n \in house /\ n # hreq[t].id
        <3>1. CASE others = {}
            <4>1. house \subseteq {hreq[t].id}
                BY <3>1, Zenon
            <4>2. p = "delete" /\ n = 0
                BY <3>1
            <4> QED
                BY <4>1, <4>2, Zenon
        <3>2. CASE others # {}
            <4>1. n \in house /\ n # hreq[t].id
                BY <3>2, <2>4, Zenon
            <4> QED
                BY <3>2, <4>1, Zenon
        <3> QED
            BY <3>1, <3>2, Zenon
    <2>6. hreq' = [hreq EXCEPT ![t].pc = p, ![t].next = n]
        BY <1>6, Zenon DEF W!Oldest
    <2> HIDE DEF p, n, others
    <2>7. n \in Nat /\ n \in 0..hclock /\ (p = "promote" => n # 0) /\ p \in HousePlace
        <3>1. \A m \in house : m \in Nat \ {0} /\ m \in 0..hclock
            BY <1>0
        <3>2. 0 \in 0..hclock
            BY <1>0
        <3> QED
            BY <2>5, <3>1, <3>2 DEF HousePlace
    <2>8. hreq' = [hreq EXCEPT ![t] = r]
        BY <2>6, <1>0, Zenon
    <2>9. /\ r \in HouseEntry /\ r.pc = p /\ r.next = n /\ r.todo = hreq[t].todo
          /\ r.mark = hreq[t].mark /\ r.id = hreq[t].id /\ r.late = hreq[t].late
        BY <1>0, <2>7, Zenon DEF HouseEntry
    <2> HIDE DEF r
    <2>10. Carries(r)
        BY <1>0, <2>1, <2>2, <2>5, <2>7, <2>9 DEF Carries
    <2>11. Relies(r) /\ Passed(r)
        BY <1>2, <2>1, <2>5, <2>9 DEF Relies, Passed
    <2>12. \/ hraced \/ halved \/ r.late
           \/ (\A u \in Task \ {t} : ~Half(u)) /\ hdefault \subseteq {r.id}
        BY <1>1, <2>1, <2>2, <2>9 DEF Sole
    <2>13. /\ ~(r.pc = "delete" /\ r.next # 0)
           /\ r.pc \in {"delete", "promote"}
        BY <2>5, <2>9
    <2> QED
        <3>1. Finds(t, r)
            BY <2>12, <2>13, Zenon DEF Finds
        <3>2. /\ hclock' = hclock /\ hrequests' \in Nat /\ hfaults' \in Nat
              /\ r.id \in 0..hclock' /\ r.next \in 0..hclock /\ r.todo \subseteq 1..hclock
            BY <1>0, <2>1, <2>7, <2>9, Zenon
        <3> QED
            BY <2>1, <2>2, <2>8, <2>10, <2>11, <2>13, <3>1, <3>2, HouseStays, Zenon
<1>7. CASE W!Drop(t)
    <2>1. /\ hreq' = [hreq EXCEPT ![t] = W!Idle] /\ halved' = (halved \/ Half(t))
          /\ hfaults' = hfaults + 1
          /\ UNCHANGED <<house, hdefault, refs, hclock, hraced, unguarded, hrequests>>
        BY <1>7 DEF W!Drop, W!Done, Half
    <2>2. Half(t) \in BOOLEAN
        BY DEF Half
    <2> QED
        <3>1. /\ hclock' \in Nat /\ hclock' >= hclock /\ hrequests' \in Nat /\ hfaults' \in Nat
              /\ halved' \in BOOLEAN /\ (halved => halved') /\ (Half(t) => halved')
            BY <1>0, <2>1, <2>2
        <3>2. /\ W!Idle.todo \subseteq 1..hclock' /\ W!Idle.id \in 0..hclock' /\ W!Idle.next \in 0..hclock'
              /\ ~(W!Idle.pc = "delete" /\ W!Idle.next # 0)
            BY <1>3, <3>1
        <3> QED
            BY <1>3, <1>a, <2>1, <3>1, <3>2, HouseQuietly, Zenon
<1>8. W!Halfway \in BOOLEAN /\ (~W!Halfway => \A u \in Task : ~Half(u))
    BY DEF W!Halfway, Half
<1>9. ASSUME NEW r \in HouseEntry, r.next = 0, r.late = W!Halfway, r.id # 0,
             r.todo \subseteq 1..hclock, r.id \in 0..hclock',
             hreq[t] = W!Idle, W!Accept, hreq' = [hreq EXCEPT ![t] = r],
             hclock' = hclock \/ hclock' = hclock + 1,
             UNCHANGED <<house, hdefault, refs, hraced, halved, unguarded, hfaults>>,
             \/ r.pc \in {"create", "write"} /\ (r.mark => r.todo = hdefault)
             \/ r.pc = "select"
             \/ r.pc = "guard" /\ r.mark = (r.id \in hdefault)
      PROVE  HouseInv'
    <2>1. Carries(r) /\ Relies(r) /\ Passed(r)
        BY <1>9 DEF Carries, Relies, Passed
    <2>2. Finds(t, r)
        <3> SUFFICES ASSUME ~hraced, ~halved, ~W!Halfway PROVE Finds(t, r)
            BY <1>9, Zenon DEF Finds
        <3>1. (\A u \in Task : ~Half(u)) /\ \A a, b \in hdefault : a = b
            BY <1>1, <1>8, Zenon
        <3> QED
            BY <1>9, <3>1, Zenon DEF Finds
    <2>3. ~Half(t)
        BY <1>9, <1>3, Zenon DEF Half
    <2>4. /\ hrequests' \in Nat /\ hfaults' \in Nat /\ r.next \in 0..hclock
          /\ ~(r.pc = "delete" /\ r.next # 0)
        BY <1>0, <1>9 DEF W!Accept
    <2> QED
        BY <1>9, <2>1, <2>2, <2>3, <2>4, HouseStays, Zenon
<1>10. ASSUME NEW d \in BOOLEAN, W!Create(t, d) PROVE HouseInv'
    <2> DEFINE S == IF d THEN hdefault ELSE {}
               r == [W!Idle EXCEPT !.pc = "create", !.id = hclock + 1, !.mark = d, !.todo = S,
                                 !.late = W!Halfway]
    <2>1. S \in SUBSET Nat /\ S \subseteq 1..hclock /\ (d => S = hdefault)
        BY <1>0
    <2>2. hclock' = hclock + 1
        BY <1>10, Zenon DEF W!Create
    <2>3. /\ hreq[t] = W!Idle /\ W!Accept /\ hreq' = [hreq EXCEPT ![t] = r]
          /\ UNCHANGED <<house, hdefault, refs, hraced, halved, unguarded, hfaults>>
        BY <1>10, Zenon DEF W!Create
    <2> HIDE DEF S
    <2>4. hclock + 1 \in Nat \ {0} /\ hclock + 1 \in 0..hclock'
        BY <1>0, <2>2
    <2>5. /\ r \in HouseEntry /\ r.pc = "create" /\ r.id = hclock + 1 /\ r.mark = d /\ r.todo = S
          /\ r.next = 0 /\ r.late = W!Halfway
        BY <1>8, <2>1, <2>4, Zenon DEF HouseEntry, W!Idle, HousePlace
    <2> HIDE DEF r
    <2> QED
        BY <1>9, <2>1, <2>2, <2>3, <2>4, <2>5, Zenon
<1>11. ASSUME NEW w \in house, NEW d \in BOOLEAN, W!Update(t, w, d) PROVE HouseInv'
    <2> DEFINE p == IF d THEN "select" ELSE "write"
               r == [W!Idle EXCEPT !.pc = p, !.id = w, !.mark = d, !.late = W!Halfway]
    <2>1. p \in HousePlace /\ (p = "select" \/ (p = "write" /\ ~d))
        BY DEF HousePlace
    <2>2. /\ hreq[t] = W!Idle /\ W!Accept /\ hreq' = [hreq EXCEPT ![t] = r]
          /\ UNCHANGED <<house, hdefault, refs, hclock, hraced, halved, unguarded, hfaults>>
        BY <1>11, Zenon DEF W!Update
    <2>3. w \in Nat \ {0} /\ w \in 0..hclock'
        BY <1>0, <2>2
    <2> HIDE DEF p
    <2>4. /\ r \in HouseEntry /\ r.pc = p /\ r.id = w /\ r.mark = d /\ r.todo = {}
          /\ r.next = 0 /\ r.late = W!Halfway
        BY <1>8, <2>1, <2>3, Zenon DEF HouseEntry, W!Idle
    <2> HIDE DEF r
    <2> QED
        BY <1>9, <2>1, <2>2, <2>3, <2>4, Zenon
<1>12. ASSUME NEW w \in house, W!Delete(t, w) PROVE HouseInv'
    <2> DEFINE r == [W!Idle EXCEPT !.pc = "guard", !.id = w, !.mark = w \in hdefault, !.late = W!Halfway]
    <2>1. (w \in hdefault) \in BOOLEAN
        OBVIOUS
    <2>2. /\ hreq[t] = W!Idle /\ W!Accept /\ hreq' = [hreq EXCEPT ![t] = r]
          /\ UNCHANGED <<house, hdefault, refs, hclock, hraced, halved, unguarded, hfaults>>
        BY <1>12, Zenon DEF W!Delete
    <2>3. w \in Nat \ {0} /\ w \in 0..hclock'
        BY <1>0, <2>2
    <2>4. /\ r \in HouseEntry /\ r.pc = "guard" /\ r.id = w /\ r.mark = (w \in hdefault)
          /\ r.todo = {} /\ r.next = 0 /\ r.late = W!Halfway
        BY <1>8, <2>1, <2>3, Zenon DEF HouseEntry, W!Idle, HousePlace
    <2> HIDE DEF r
    <2> QED
        BY <1>9, <2>2, <2>3, <2>4, Zenon
<1> QED
    BY <1>4, <1>5, <1>6, <1>7, <1>10, <1>11, <1>12

\* The steps that write.
LEMMA HouseLoud ==
    ASSUME HouseInv, NEW t \in Task,
           \/ W!CreateWrite(t) \/ W!Write(t) \/ W!Promote(t) \/ W!DeleteWrite(t)
           \/ \E w \in hreq[t].todo : W!ClearOne(t, w)
    PROVE  HouseInv'
<1>0. /\ hclock \in Nat /\ hrequests \in Nat /\ hfaults \in Nat /\ halved \in BOOLEAN
      /\ house \subseteq 1..hclock /\ hdefault \subseteq house /\ hreq \in [Task -> HouseEntry]
      /\ Carries(hreq[t]) /\ hreq[t].todo \subseteq 1..hclock /\ hraced \in BOOLEAN
      /\ hreq[t].id \in 0..hclock /\ hreq[t].next \in 0..hclock /\ hreq[t] \in HouseEntry
      /\ refs \subseteq house \cup unguarded
    BY DEF HouseInv, HouseTyped, W!NoDangling
<1>1. \/ hraced \/ halved
      \/ /\ \A a, b \in hdefault : (\A x \in Task : Half(x) => hreq[x].id \notin {a, b}) => a = b
         /\ ~hreq[t].late => Sole(t)
    BY Zenon DEF HouseInv, OneLeft
<1>2. Relies(hreq[t]) /\ Passed(hreq[t])
    BY DEF HouseInv
<1>3. /\ Carries(W!Idle) /\ W!Idle.pc = "idle" /\ W!Idle.todo \subseteq 1..hclock
      /\ W!Idle.id \in 0..hclock /\ W!Idle.next \in 0..hclock /\ Passed(W!Idle)
    BY <1>0, HouseIdle DEF Passed
<1>4. ASSUME NEW w \in hreq[t].todo, W!ClearOne(t, w) PROVE HouseInv'
    <2>1. /\ hreq[t].pc \in {"create", "write"} /\ hdefault' = hdefault \ {w}
          /\ UNCHANGED <<house, refs, hclock, halved, unguarded, hrequests, hfaults>>
        BY <1>4, Zenon DEF W!ClearOne
    <2>2. ~Half(t)
        BY <2>1 DEF Half
    <2>3. ASSUME NEW r, W!Wrote(t, r, FALSE)
          PROVE  hraced' = hraced
        BY <2>3, <1>0, Zenon DEF W!Wrote
    <2>4. hdefault' \subseteq hdefault /\ hdefault' \subseteq house' /\ house' \subseteq 1..hclock
          /\ refs \subseteq house' \cup unguarded
        BY <1>0, <2>1, Zenon
    <2>5. \/ hraced \/ halved
          \/ \A a, b \in hdefault' :
                (\A x \in Task \ {t} : Half(x) => hreq[x].id \notin {a, b}) => a = b
        BY <1>1, <2>2, <2>4
    <2>6. CASE W!Wrote(t, W!Idle, FALSE)
        BY <1>3, <2>1, <2>3, <2>4, <2>5, <2>6, HouseLoudly, Zenon
    <2>7. CASE W!Wrote(t, [hreq[t] EXCEPT !.todo = @ \ {w}], FALSE)
        <3> DEFINE r == [hreq[t] EXCEPT !.todo = @ \ {w}]
        <3>1. /\ r \in HouseEntry /\ r.pc = hreq[t].pc /\ r.id = hreq[t].id /\ r.mark = hreq[t].mark
              /\ r.todo = hreq[t].todo \ {w} /\ r.next = hreq[t].next /\ r.late = hreq[t].late
            BY <1>0 DEF HouseEntry
        <3>2. W!Wrote(t, r, FALSE)
            BY <2>7, Zenon
        <3> HIDE DEF r
        <3>3. Carries(r) /\ Passed(r)
            BY <1>0, <2>1, <3>1 DEF Carries, Passed
        <3>4. \/ hraced \/ halved \/ hreq[t].late
              \/ /\ \A u \in Task \ {t} : ~Half(u)
                 /\ r.mark => hdefault' \subseteq r.todo \cup {r.id}
            BY <1>1, <2>1, <3>1, Zenon DEF Sole
        <3>5. r.todo \subseteq 1..hclock /\ r.id \in 0..hclock /\ r.next \in 0..hclock
            BY <1>0, <3>1
        <3>6. r.pc \in {"create", "write"} /\ hraced' = hraced
            BY <2>1, <2>3, <3>1, <3>2, Zenon
        <3> QED
            BY <2>1, <2>4, <2>5, <3>1, <3>2, <3>3, <3>4, <3>5, <3>6, HouseLoudly, Zenon
    <2> QED
        BY <1>4, <2>6, <2>7, Zenon DEF W!ClearOne
<1>5. ASSUME NEW i \in 1..hclock, NEW marks \in BOOLEAN, W!Wrote(t, W!Idle, marks), ~Half(t),
             UNCHANGED <<refs, hclock, halved, unguarded, hrequests, hfaults>>,
             house \subseteq house', house' \subseteq 1..hclock,
             IF marks THEN i \in house' /\ hdefault' = hdefault \cup {i} ELSE hdefault' \subseteq hdefault,
             hraced \/ halved \/ hreq[t].late \/ ~marks \/ hdefault \subseteq {i}
      PROVE  HouseInv'
    <2>1. hraced' = (hraced \/ (marks /\ hreq[t].late))
        BY <1>5, Zenon DEF W!Wrote
    <2>2. /\ hdefault' \subseteq house' /\ refs \subseteq house' \cup unguarded
          /\ marks \/ hdefault' \subseteq hdefault
        BY <1>0, <1>5, Zenon
    <2>3. \/ hraced' \/ halved
          \/ \A a, b \in hdefault' :
                (\A x \in Task \ {t} : Half(x) => hreq[x].id \notin {a, b}) => a = b
        <3>1. CASE marks
            BY <3>1, <2>1, <1>5, Zenon
        <3>2. CASE ~marks
            BY <3>2, <2>1, <1>1, <1>5, Zenon
        <3> QED
            BY <3>1, <3>2
    <2> QED
        BY <1>3, <1>5, <2>2, <2>3, HouseLoudly, Zenon
<1>6. CASE W!CreateWrite(t)
    <2>1. /\ hreq[t].pc = "create" /\ hreq[t].todo = {} /\ house' = house \cup {hreq[t].id}
          /\ hdefault' = IF hreq[t].mark THEN hdefault \cup {hreq[t].id} ELSE hdefault
          /\ W!Wrote(t, W!Idle, hreq[t].mark)
          /\ UNCHANGED <<refs, hclock, halved, unguarded, hrequests, hfaults>>
        BY <1>6, Zenon DEF W!CreateWrite
    <2>2. hreq[t].id \in 1..hclock /\ hreq[t].mark \in BOOLEAN /\ ~Half(t)
        BY <1>0, <2>1 DEF Carries, HouseEntry, Half
    <2>3. hraced \/ halved \/ hreq[t].late \/ ~hreq[t].mark \/ hdefault \subseteq {hreq[t].id}
        BY <1>1, <2>1, Zenon DEF Sole
    <2>4. house \subseteq house' /\ house' \subseteq 1..hclock
        BY <1>0, <2>1, <2>2, Zenon
    <2>5. IF hreq[t].mark THEN hreq[t].id \in house' /\ hdefault' = hdefault \cup {hreq[t].id}
          ELSE hdefault' \subseteq hdefault
        BY <2>1
    <2> QED
        BY <1>5, <2>1, <2>2, <2>3, <2>4, <2>5, Zenon
<1>7. CASE W!Write(t)
    <2> DEFINE w == hreq[t].id
               marks == w \in house /\ hreq[t].mark
    <2>1. /\ hreq[t].pc = "write" /\ hreq[t].todo = {}
          /\ hdefault' = IF marks THEN hdefault \cup {w} ELSE hdefault \ {w}
          /\ W!Wrote(t, W!Idle, marks)
          /\ UNCHANGED <<house, refs, hclock, halved, unguarded, hrequests, hfaults>>
        BY <1>7, Zenon DEF W!Write
    <2>2. w \in 1..hclock /\ marks \in BOOLEAN /\ ~Half(t) /\ (marks => w \in house)
        BY <1>0, <2>1 DEF Carries, HouseEntry, Half
    <2>3. hraced \/ halved \/ hreq[t].late \/ ~marks \/ hdefault \subseteq {w}
        BY <1>1, <2>1, Zenon DEF Sole
    <2> HIDE DEF marks, w
    <2>4. house \subseteq house' /\ house' \subseteq 1..hclock
        BY <1>0, <2>1
    <2>5. IF marks THEN w \in house' /\ hdefault' = hdefault \cup {w} ELSE hdefault' \subseteq hdefault
        BY <2>1, <2>2
    <2> QED
        BY <1>5, <2>1, <2>2, <2>3, <2>4, <2>5, Zenon
<1>8. CASE W!Promote(t)
    <2> DEFINE w == hreq[t].next
               r == [hreq[t] EXCEPT !.pc = "delete"]
    <2>1. /\ hreq[t].pc = "promote"
          /\ hdefault' = IF w \in house THEN hdefault \cup {w} ELSE hdefault
          /\ W!Wrote(t, IF w \in house THEN r ELSE W!Idle, w \in house)
          /\ UNCHANGED <<house, refs, hclock, halved, unguarded, hrequests, hfaults>>
        BY <1>8, Zenon DEF W!Promote
    <2>2. w # 0 /\ w \in 1..hclock /\ ~Half(t) /\ hreq[t].mark
        BY <1>0, <2>1 DEF Carries, Half
    <2>3. CASE w \notin house
        <3> HIDE DEF r, w
        <3>a. (w \in house) = FALSE /\ (IF w \in house THEN r ELSE W!Idle) = W!Idle
            BY <2>3
        <3>b. hdefault' \subseteq hdefault
            BY <2>1, <2>3
        <3>1. W!Wrote(t, W!Idle, FALSE) /\ hdefault' \subseteq hdefault
            BY <2>1, <3>a, <3>b, Zenon
        <3>2. house \subseteq house' /\ house' \subseteq 1..hclock
            BY <1>0, <2>1
        <3> QED
            BY <1>5, <2>1, <2>2, <3>1, <3>2, Zenon
    <2>4. CASE w \in house
        <3>1. W!Wrote(t, r, TRUE) /\ hdefault' = hdefault \cup {w}
            BY <2>1, <2>4, Zenon
        <3>2. hraced' = (hraced \/ hreq[t].late)
            BY <3>1, Zenon DEF W!Wrote
        <3>3. /\ r \in HouseEntry /\ r.pc = "delete" /\ r.id = hreq[t].id /\ r.mark = hreq[t].mark
              /\ r.todo = hreq[t].todo /\ r.next = w /\ r.late = hreq[t].late
              /\ r.stirred = hreq[t].stirred
            BY <1>0 DEF HouseEntry, HousePlace
        <3> HIDE DEF r
        <3>4. Carries(r) /\ Passed(r)
            BY <1>0, <1>2, <2>1, <3>3, Zenon DEF Carries, Passed
        <3>5. \/ hraced' \/ halved
              \/ (\A u \in Task \ {t} : ~Half(u)) /\ hdefault \subseteq {r.id}
            BY <1>1, <2>1, <2>2, <3>2, <3>3, Zenon DEF Sole
        <3>6. \/ hraced' \/ halved
              \/ \A a, b \in hdefault' : r.id \notin {a, b} => a = b
            <4> HIDE DEF w
            <4> SUFFICES ASSUME ~hraced', ~halved, NEW a \in hdefault', NEW b \in hdefault',
                                r.id \notin {a, b}
                         PROVE  a = b
                BY Zenon
            <4>1. hdefault \subseteq {r.id}
                BY <3>5, Zenon
            <4>2. a \in hdefault \cup {w} /\ b \in hdefault \cup {w}
                BY <3>1, Zenon
            <4> QED
                BY <4>1, <4>2
        <3>7. ~r.stirred => r.next # r.id /\ r.next \in hdefault'
            BY <1>2, <2>1, <3>1, <3>3, Zenon DEF Relies
        <3>8. /\ hdefault' \subseteq house' /\ house' \subseteq 1..hclock
              /\ refs \subseteq house' \cup unguarded
              /\ r.todo \subseteq 1..hclock /\ r.id \in 0..hclock /\ r.next \in 0..hclock
              /\ r.next # 0
            BY <1>0, <2>1, <2>2, <2>4, <3>1, <3>3, Zenon
        <3> HIDE DEF w
        <3> QED
            BY <2>1, <3>1, <3>3, <3>4, <3>5, <3>6, <3>7, <3>8, HouseLoudly, Zenon
    <2> QED
        BY <2>3, <2>4
<1>9. CASE W!DeleteWrite(t)
    <2> DEFINE w == hreq[t].id
    <2>1. /\ hreq[t].pc = "delete" /\ house' = house \ {w} /\ hdefault' = hdefault \ {w}
          /\ W!Wrote(t, W!Idle, FALSE)
          /\ UNCHANGED <<refs, hclock, halved, unguarded, hrequests, hfaults>>
        BY <1>9, Zenon DEF W!DeleteWrite
    <2>2. w \in refs => w \in unguarded
        BY <1>2, <2>1 DEF Passed
    <2>3. hraced' = hraced
        BY <2>1, <1>0, Zenon DEF W!Wrote
    <2>4. Half(t) => hreq[t].id = w
        OBVIOUS
    <2> HIDE DEF w
    <2>5. /\ house' \subseteq 1..hclock /\ hdefault' \subseteq house' /\ hdefault' \subseteq hdefault
          /\ refs \subseteq house' \cup unguarded
        BY <1>0, <2>1, <2>2, Zenon
    <2>6. \/ hraced \/ halved
          \/ \A a, b \in hdefault' :
                (\A x \in Task \ {t} : Half(x) => hreq[x].id \notin {a, b}) => a = b
        BY <1>1, <2>1, <2>4, <2>5
    <2> QED
        BY <1>3, <2>1, <2>3, <2>5, <2>6, HouseLoudly, Zenon
<1> QED
    BY <1>4, <1>6, <1>7, <1>8, <1>9

\* A product is linked to a warehouse, or no longer.
LEMMA HouseLinks ==
    ASSUME HouseInv, NEW w, W!Link(w) \/ W!Unlink(w)
    PROVE  HouseInv'
<1>1. /\ UNCHANGED <<house, hdefault, hclock, hreq, hraced, halved, hfaults>>
      /\ hrequests' \in Nat
    BY DEF HouseInv, HouseTyped, W!Link, W!Unlink, W!Accept
<1>2. /\ refs' \subseteq refs \cup {w} /\ unguarded \subseteq unguarded'
      /\ unguarded' \subseteq unguarded \cup {w} /\ (w \in house \/ w \in refs)
    BY DEF W!Link, W!Unlink
<1>3. refs' \subseteq house \cup unguarded'
    BY <1>2 DEF HouseInv, W!NoDangling
<1>4. HouseTyped'
    <2>1. refs' \subseteq 1..hclock /\ unguarded' \subseteq 1..hclock
        BY <1>2 DEF HouseInv, HouseTyped
    <2>2. \A t \in Task : (Carries(hreq[t]))' <=> Carries(hreq[t])
        BY <1>1 DEF Carries, HouseEntry, W!Idle
    <2> QED
        BY <1>1, <2>1, <2>2 DEF HouseInv, HouseTyped
<1>5. OneLeft'
    BY <1>1 DEF HouseInv, OneLeft, Sole, Half
<1>6. ASSUME NEW t \in Task PROVE (Relies(hreq[t]))' /\ (Passed(hreq[t]))'
    <2>1. Relies(hreq[t]) /\ Passed(hreq[t])
        BY DEF HouseInv
    <2>2. (Relies(hreq[t]))'
        BY <1>1, <2>1 DEF Relies
    <2>3. CASE W!Link(w)
        <3> SUFFICES ASSUME hreq[t].pc \in {"oldest", "promote", "delete"}, hreq[t].id \in refs'
                     PROVE  hreq[t].id \in unguarded'
            BY <1>1, <2>2, Zenon DEF Passed
        <3>1. CASE hreq[t].id = w
            BY <3>1, <2>3 DEF W!Link
        <3>2. CASE hreq[t].id # w
            <4>1. hreq[t].id \in refs
                BY <3>2, <1>2
            <4> QED
                BY <4>1, <1>2, <2>1 DEF Passed
        <3> QED
            BY <3>1, <3>2
    <2>4. CASE W!Unlink(w)
        <3>1. refs' \subseteq refs /\ unguarded' = unguarded
            BY <2>4 DEF W!Unlink
        <3> QED
            BY <3>1, <2>1, <2>2, <1>1, Zenon DEF Passed
    <2> QED
        BY <2>2, <2>3, <2>4
<1> QED
    BY <1>1, <1>3, <1>4, <1>5, <1>6 DEF HouseInv, W!NoDangling

\* The invariant is inductive.
THEOREM HouseInductive == W!Spec => []HouseInv
<1>1. HouseInv /\ [W!Next]_W!vars => HouseInv'
    <2> SUFFICES ASSUME HouseInv, [W!Next]_W!vars PROVE HouseInv'
        OBVIOUS
    <2>1. CASE W!Next
        BY <2>1, HouseLinks, HouseQuiet, HouseLoud, Zenon DEF W!Next
    <2>2. CASE UNCHANGED W!vars
        <3>1. /\ HouseTyped' = HouseTyped /\ OneLeft' = OneLeft /\ W!NoDangling' = W!NoDangling
            BY <2>2 DEF W!vars, HouseTyped, OneLeft, W!NoDangling, Sole, Half, Carries
        <3>2. \A t \in Task : (Relies(hreq[t]) /\ Passed(hreq[t]))' = (Relies(hreq[t]) /\ Passed(hreq[t]))
            BY <2>2 DEF W!vars, Relies, Passed
        <3> QED
            BY <3>1, <3>2, Zenon DEF HouseInv
    <2> QED
        BY <2>1, <2>2
<1> QED
    BY <1>1, HouseInit, PTL DEF W!Spec

\* What the invariant says.
LEMMA HouseSafe == HouseInv => W!TypeOK /\ W!OneDefault /\ W!NoDangling
<1> SUFFICES ASSUME HouseInv PROVE W!TypeOK /\ W!OneDefault /\ W!NoDangling
    OBVIOUS
<1>1. W!TypeOK
    <2>1. ASSUME NEW t \in Task
          PROVE  /\ hreq[t].pc \in {"idle", "create", "select", "write", "guard", "oldest",
                                   "promote", "delete"}
                 /\ {hreq[t].id, hreq[t].next} \subseteq 0..hclock /\ hreq[t].todo \subseteq 1..hclock
        BY DEF HouseInv, HouseTyped, HouseEntry, HousePlace
    <2> QED
        BY <2>1 DEF HouseInv, HouseTyped, W!TypeOK
<1>2. W!OneDefault
    <2> SUFFICES ASSUME ~hraced, ~halved,
                        NEW a \in hdefault, NEW b \in hdefault,
                        \A t \in Task : hreq[t].pc = "delete" => hreq[t].id \notin {a, b}
                 PROVE  a = b
        BY DEF W!OneDefault
    <2>1. \A t \in Task : Half(t) => hreq[t].id \notin {a, b}
        BY Zenon DEF Half
    <2> QED
        BY <2>1, Zenon DEF HouseInv, OneLeft
<1> QED
    BY <1>1, <1>2 DEF HouseInv

\* A step that ends the deletion of the default.
LEMMA HouseSuccessor ==
    ASSUME HouseInv, W!Next, NEW t \in Task,
           hreq[t].pc \in {"promote", "delete"}, hreq'[t] = W!Idle,
           hreq[t].mark, ~hreq[t].stirred, hfaults' = hfaults
    PROVE  hdefault' # {} \/ house' = {}
<1>1. /\ hreq \in [Task -> HouseEntry] /\ hreq[t] \in HouseEntry /\ W!Idle.pc = "idle" /\ hreq[t] # W!Idle
      /\ hfaults \in Nat /\ Relies(hreq[t])
    BY HouseIdle DEF HouseInv, HouseTyped
<1>2. hreq'[t] # hreq[t]
    BY <1>1
<1>3. ~ \E w \in house \cup refs : W!Link(w) \/ W!Unlink(w)
    BY <1>2, Zenon DEF W!Link, W!Unlink
<1>4. PICK u \in Task :
          \/ W!Select(u) \/ W!CreateWrite(u) \/ W!Write(u) \/ W!Guard(u) \/ W!Oldest(u) \/ W!Promote(u)
          \/ W!DeleteWrite(u) \/ W!Drop(u)
          \/ \E d \in BOOLEAN : W!Create(u, d) \/ \E w \in house : W!Update(u, w, d)
          \/ \E w \in house : W!Delete(u, w)
          \/ \E w \in hreq[u].todo : W!ClearOne(u, w)
    BY <1>3, Zenon DEF W!Next
<1>5. u = t
    <2> SUFFICES ASSUME u # t PROVE FALSE
        OBVIOUS
    <2>1. ASSUME NEW r, NEW marks, W!Wrote(u, r, marks) PROVE FALSE
        <3>1. hreq'[t] = [hreq[t] EXCEPT !.stirred = TRUE, !.late = @ \/ marks]
            BY <2>1, <1>1, Zenon DEF W!Wrote
        <3>2. hreq'[t].pc = hreq[t].pc
            BY <3>1, <1>1 DEF HouseEntry
        <3> QED
            BY <3>2, <1>1
    <2>2. ASSUME NEW r, hreq' = [hreq EXCEPT ![u] = r] PROVE FALSE
        BY <2>2, <1>1, <1>2
    <2>3. CASE W!Select(u) \/ W!Guard(u) \/ W!Oldest(u)
        BY <2>2, <2>3, <1>1, <1>2 DEF W!Select, W!Guard, W!Oldest, W!Done
    <2>4. CASE W!CreateWrite(u) \/ W!Write(u) \/ W!Promote(u) \/ W!DeleteWrite(u)
               \/ \E w \in hreq[u].todo : W!ClearOne(u, w)
        BY <2>1, <2>4, Zenon DEF W!CreateWrite, W!Write, W!Promote, W!DeleteWrite, W!ClearOne
    <2>5. CASE \/ W!Drop(u) \/ \E d \in BOOLEAN : W!Create(u, d) \/ \E w \in house : W!Update(u, w, d)
               \/ \E w \in house : W!Delete(u, w)
        BY <2>2, <2>5, Zenon DEF W!Drop, W!Create, W!Update, W!Delete, W!Done
    <2> QED
        BY <1>4, <2>3, <2>4, <2>5, Zenon
<1>6. CASE W!Promote(t)
    <2>1. hreq[t].next \in house /\ hreq[t].pc = "promote"
        BY <1>1, <1>6 DEF Relies, W!Promote
    <2>2. hreq'[t] = [hreq[t] EXCEPT !.pc = "delete"]
        BY <1>6, <2>1, Zenon DEF W!Promote, W!Wrote
    <2>3. hreq'[t].pc = "delete"
        BY <2>2, <1>1 DEF HouseEntry
    <2> QED
        BY <2>3, <1>1
<1>7. CASE W!DeleteWrite(t)
    BY <1>1, <1>7 DEF Relies, W!DeleteWrite
<1>8. ~(W!Select(t) \/ W!CreateWrite(t) \/ W!Write(t) \/ W!Guard(t) \/ W!Oldest(t))
    BY Zenon DEF W!Select, W!CreateWrite, W!Write, W!Guard, W!Oldest
<1>9. ~W!Drop(t) /\ ~ \E w \in hreq[t].todo : W!ClearOne(t, w)
    <2>1. ~W!Drop(t)
        <3>1. W!Drop(t) => hfaults' = hfaults + 1
            BY Zenon DEF W!Drop
        <3> QED
            BY <3>1, <1>1
    <2>2. ASSUME NEW w, W!ClearOne(t, w) PROVE FALSE
        BY <2>2 DEF W!ClearOne
    <2> QED
        BY <2>1, <2>2, Zenon
<1>10. ~(\/ \E d \in BOOLEAN : W!Create(t, d) \/ \E w \in house : W!Update(t, w, d)
         \/ \E w \in house : W!Delete(t, w))
    BY <1>1, Zenon DEF W!Create, W!Update, W!Delete
<1> QED
    BY <1>4, <1>5, <1>6, <1>7, <1>8, <1>9, <1>10, Zenon

\* A seller's warehouses have one default, the deletion of the default leaves another
\* one, and no product refers to a deleted warehouse, but for requests that crossed
\* (warehouses/mod.rs).
THEOREM Stores == W!Spec => WarehousesSafe
<1>1. HouseInv /\ [W!Next]_W!vars =>
        [\A t \in Task :
            /\ hreq[t].pc \in {"promote", "delete"} /\ hreq'[t] = W!Idle
            /\ hreq[t].mark /\ ~hreq[t].stirred /\ hfaults' = hfaults
            => hdefault' # {} \/ house' = {}]_W!vars
    BY HouseSuccessor, Zenon
<1>2. W!Spec => W!Successor
    BY <1>1, HouseInductive, PTL DEF W!Spec, W!Successor
<1> QED
    BY <1>2, HouseInductive, HouseSafe, PTL DEF WarehousesSafe
=============================================================================

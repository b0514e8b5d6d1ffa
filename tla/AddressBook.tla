----------------------------- MODULE AddressBook -----------------------------
(***************************************************************************)
(* The addresses of a buyer, one of them the default                       *)
(* (ob-handlers/src/users/mod.rs: add, update, delete and set_default of   *)
(* buyer addresses).                                                       *)
(*                                                                         *)
(* `isDefault` is a field of each address, so a new default takes two      *)
(* statements: one clears the others, one marks the new one.  The error of *)
(* the first is ignored.  An address is the number of its createdAt.       *)
(* Requests of other users return before they change anything; the text of *)
(* an address is left out.                                                 *)
(***************************************************************************)
EXTENDS Integers, FiniteSets, FiniteSetsExt

CONSTANTS
    Task,
    MaxAddresses,   \* 10 in the code
    MaxRequests,    \* bound: requests
    MaxFaults       \* bound: failed statements and dropped requests

ASSUME LimitAssumption == MaxAddresses \in Nat

VARIABLES
    book, default,  \* addresses of the user, and those with isDefault
    clock,          \* createdAt of the last address
    req,            \* requests in progress
    raced,          \* history: a default was marked by a request during which another was
    failed,         \* history: a clearing statement failed
    unseen,         \* history: addresses added without counting all that were there
    requests, faults

vars == <<book, default, clock, req, raced, failed, unseen, requests, faults>>

\* A request: its address, the isDefault it writes, what it counted; whether others wrote
\* to the book, and marked a default, since it began.
Idle == [pc |-> "idle", addr |-> 0, mark |-> FALSE, seen |-> 0, stirred |-> FALSE,
         late |-> FALSE]

Init ==
    /\ book = {} /\ default = {} /\ clock = 0
    /\ req = [t \in Task |-> Idle]
    /\ raced = FALSE /\ failed = FALSE /\ unseen = 0
    /\ requests = 0 /\ faults = 0

Begin(t, r) ==
    /\ req[t] = Idle /\ requests < MaxRequests /\ requests' = requests + 1
    /\ req' = [req EXCEPT ![t] = r]

Fault == faults < MaxFaults /\ faults' = faults + 1

Done(t) == req' = [req EXCEPT ![t] = Idle]

\* Request t has written to the book and goes on as r; `marks` if it marked a default.
Wrote(t, r, marks) ==
    /\ req' = [x \in Task |->
                 IF x = t THEN r
                 ELSE IF req[x] = Idle THEN Idle
                 ELSE [req[x] EXCEPT !.stirred = TRUE, !.late = @ \/ marks]]
    /\ raced' = (raced \/ (marks /\ req[t].late))

----------------------------------------------------------------------------
\* add_buyer_address: the count, which is not looked at when the statement fails.
Add(t, d) ==
    \E n \in {Cardinality(book), 0} :
        /\ IF n = Cardinality(book) THEN UNCHANGED faults ELSE Fault
        /\ n < MaxAddresses
        /\ clock' = clock + 1
        /\ Begin(t, [Idle EXCEPT !.pc = IF d THEN "clear_add" ELSE "add", !.addr = clock + 1,
                                 !.mark = d, !.seen = n])
        /\ UNCHANGED <<book, default, raced, failed, unseen>>

\* update_buyer_address: the address is the user's.
Update(t, a, d) ==
    /\ a \in book
    /\ Begin(t, [Idle EXCEPT !.pc = IF d THEN "clear_others" ELSE "write", !.addr = a,
                             !.mark = d])
    /\ UNCHANGED <<book, default, clock, raced, failed, unseen, faults>>

\* set_default_buyer_address: the address is the user's.
SetDefault(t, a) ==
    /\ a \in book
    /\ Begin(t, [Idle EXCEPT !.pc = "clear", !.addr = a, !.mark = TRUE])
    /\ UNCHANGED <<book, default, clock, raced, failed, unseen, faults>>

\* The statement that clears isDefault, of all addresses or of all others; its error is
\* ignored.
Clear(t) ==
    /\ req[t].pc \in {"clear_add", "clear_others", "clear"}
    /\ Wrote(t, [req[t] EXCEPT !.pc = IF @ = "clear_add" THEN "add" ELSE "write"], FALSE)
    /\ \/ /\ default' = IF req[t].pc = "clear_others" THEN default \cap {req[t].addr} ELSE {}
          /\ UNCHANGED <<failed, faults>>
       \/ Fault /\ failed' = TRUE /\ UNCHANGED default
    /\ UNCHANGED <<book, clock, unseen, requests>>

\* create_document of a new address.
AddWrite(t) ==
    /\ req[t].pc = "add"
    /\ book' = book \cup {req[t].addr}
    /\ default' = IF req[t].mark THEN default \cup {req[t].addr} ELSE default
    /\ unseen' = IF Cardinality(book) > req[t].seen THEN unseen + 1 ELSE unseen
    /\ Wrote(t, Idle, req[t].mark)
    /\ UNCHANGED <<clock, failed, requests, faults>>

\* update_document of the address, an error if it is gone.
Write(t) ==
    LET a == req[t].addr
    IN  /\ req[t].pc = "write"
        /\ default' = IF a \in book /\ req[t].mark THEN default \cup {a} ELSE default \ {a}
        /\ Wrote(t, Idle, a \in book /\ req[t].mark)
        /\ UNCHANGED <<book, clock, failed, unseen, requests, faults>>

----------------------------------------------------------------------------
\* delete_buyer_address: the address is the user's, and the default or not.
Delete(t, a) ==
    /\ a \in book
    /\ Begin(t, [Idle EXCEPT !.pc = "delete", !.addr = a, !.mark = a \in default])
    /\ UNCHANGED <<book, default, clock, raced, failed, unseen, faults>>

\* MUTANT: what was the default is read after the deletion.
DeleteWriteLate(t) ==
    LET a == req[t].addr
    IN  /\ req[t].pc = "delete"
        /\ book' = book \ {a} /\ default' = default \ {a}
        /\ Wrote(t, IF a \in book /\ a \in default' THEN [req[t] EXCEPT !.pc = "newest"]
                    ELSE Idle,
                 FALSE)
        /\ UNCHANGED <<clock, failed, unseen, requests, faults>>

\* delete_document, an error if it is gone.
DeleteWrite(t) ==
    LET a == req[t].addr
    IN  /\ req[t].pc = "delete"
        /\ book' = book \ {a} /\ default' = default \ {a}
        /\ Wrote(t, IF a \in book /\ req[t].mark THEN [req[t] EXCEPT !.pc = "newest"] ELSE Idle,
                 FALSE)
        /\ UNCHANGED <<clock, failed, unseen, requests, faults>>

\* The newest address left.
Newest(t) ==
    /\ req[t].pc = "newest"
    /\ IF book = {} THEN Done(t)
       ELSE req' = [req EXCEPT ![t].pc = "promote", ![t].addr = Max(book)]
    /\ UNCHANGED <<book, default, clock, raced, failed, unseen, requests, faults>>

\* It becomes the default; the error is ignored, if only because it is gone.
Promote(t) ==
    LET a == req[t].addr
    IN  /\ req[t].pc = "promote"
        /\ \/ /\ default' = IF a \in book THEN default \cup {a} ELSE default
              /\ Wrote(t, Idle, a \in book)
              /\ UNCHANGED faults
           \/ Fault /\ Done(t) /\ UNCHANGED <<default, raced>>
        /\ UNCHANGED <<book, clock, failed, unseen, requests>>

\* A statement whose error is returned fails, or the request is dropped at an await.
Drop(t) ==
    /\ req[t] # Idle /\ Fault /\ Done(t)
    /\ UNCHANGED <<book, default, clock, raced, failed, unseen, requests>>

Next ==
    \E t \in Task :
        \/ Clear(t) \/ AddWrite(t) \/ Write(t) \/ DeleteWrite(t) \/ Newest(t) \/ Promote(t)
        \/ Drop(t)
        \/ \E d \in BOOLEAN : Add(t, d)
        \/ \E a \in book : SetDefault(t, a) \/ Delete(t, a) \/ \E d \in BOOLEAN : Update(t, a, d)

Spec == Init /\ [][Next]_vars

----------------------------------------------------------------------------
\* The variables have their types.
TypeOK ==
    /\ book \subseteq 1..clock /\ default \subseteq book
    /\ \A t \in Task :
          /\ req[t].pc \in {"idle", "clear_add", "clear_others", "clear", "add", "write",
                            "delete", "newest", "promote"}
          /\ req[t].addr \in 0..clock /\ {req[t].mark, req[t].late, req[t].stirred} \subseteq BOOLEAN
    /\ {raced, failed} \subseteq BOOLEAN /\ {clock, unseen, requests, faults} \subseteq Nat

\* At most one address is the default, unless a request marked one although another
\* request had marked one since it began, or a clearing statement failed.
OneDefault == raced \/ failed \/ Cardinality(default) <= 1

\* The book holds at most MaxAddresses, but for one more for each address that was added
\* without counting all that were there: another was added since, or the count failed.
BookLimited == Cardinality(book) <= MaxAddresses + unseen

\* When the deletion of the default ends, the book has a default again or is empty;
\* unless its statements failed, or another request wrote to the book in between.
Successor ==
    [][\A t \in Task :
          /\ req[t].pc \in {"delete", "newest", "promote"} /\ req'[t] = Idle
          /\ req[t].mark /\ ~req[t].stirred /\ faults' = faults
          => default' # {} \/ book' = {}]_vars

\* The address book of a user has one default and its limit, and the deletion of the
\* default leaves another one, but for requests that crossed and statements that failed.
AddressBookSafe == [](TypeOK /\ OneDefault /\ BookLimited) /\ Successor
==============================================================================

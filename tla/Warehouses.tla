----------------------------- MODULE Warehouses ------------------------------
(***************************************************************************)
(* The warehouses of a seller, one of them the default, and the products   *)
(* that refer to them (ob-handlers/src/warehouses/mod.rs).                 *)
(*                                                                         *)
(* Unlike the addresses of a buyer, the old defaults are selected and then *)
(* cleared one by one, every error ends the request, and the deletion of   *)
(* the default promotes its successor before it deletes.  A warehouse is   *)
(* the number of its createdAt.  Requests of other users and those over    *)
(* the rate limit return before they change anything.                      *)
(***************************************************************************)
EXTENDS Integers, FiniteSetsExt

CONSTANTS
    Task,
    MaxRequests,    \* bound: requests and product writes
    MaxFaults       \* bound: failed statements and dropped requests

VARIABLES
    house, default, \* warehouses of the seller, and those with isDefault
    refs,           \* warehouses in the warehouseIds of some product
    clock,          \* createdAt of the last warehouse
    req,            \* requests in progress
    raced,          \* history: a default was marked by a request during which another was,
                    \* or that began between promotion and deletion of another
    halved,         \* history: a deletion ended between promotion and deletion
    unguarded,      \* history: warehouses linked while a deletion was past its guard
    requests, faults

vars == <<house, default, refs, clock, req, raced, halved, unguarded, requests, faults>>

\* A request: its warehouse, the isDefault it writes or read, the defaults to clear, the
\* successor; whether others wrote, and marked a default, since it began.
Idle == [pc |-> "idle", id |-> 0, mark |-> FALSE, todo |-> {}, next |-> 0,
         stirred |-> FALSE, late |-> FALSE]

Init ==
    /\ house = {} /\ default = {} /\ refs = {} /\ clock = 0
    /\ req = [t \in Task |-> Idle]
    /\ raced = FALSE /\ halved = FALSE /\ unguarded = {}
    /\ requests = 0 /\ faults = 0

Accept == requests < MaxRequests /\ requests' = requests + 1

\* A deletion has promoted the successor and not deleted yet.
Halfway == \E t \in Task : req[t].pc = "delete" /\ req[t].next # 0

Done(t) == req' = [req EXCEPT ![t] = Idle]

\* Request t has written and goes on as r; `marks` if it marked a default.
Wrote(t, r, marks) ==
    /\ req' = [x \in Task |->
                 IF x = t THEN r
                 ELSE IF req[x] = Idle THEN Idle
                 ELSE [req[x] EXCEPT !.stirred = TRUE, !.late = @ \/ marks]]
    /\ raced' = (raced \/ (marks /\ req[t].late))

----------------------------------------------------------------------------
\* create_warehouse, with isDefault d: clear_other_defaults selects the defaults.
Create(t, d) ==
    /\ req[t] = Idle /\ Accept
    /\ clock' = clock + 1
    /\ req' = [req EXCEPT ![t] = [Idle EXCEPT !.pc = "create", !.id = clock + 1, !.mark = d,
                                              !.todo = IF d THEN default ELSE {},
                                              !.late = Halfway]]
    /\ UNCHANGED <<house, default, refs, raced, halved, unguarded, faults>>

\* update_warehouse up to load_owned_warehouse; a request without isDefault writes no
\* field of this model.
Update(t, w, d) ==
    /\ req[t] = Idle /\ Accept /\ w \in house
    /\ req' = [req EXCEPT ![t] = [Idle EXCEPT !.pc = IF d THEN "select" ELSE "write",
                                              !.id = w, !.mark = d, !.late = Halfway]]
    /\ UNCHANGED <<house, default, refs, clock, raced, halved, unguarded, faults>>

\* clear_other_defaults of an update: the select.
Select(t) ==
    /\ req[t].pc = "select"
    /\ req' = [req EXCEPT ![t].pc = "write", ![t].todo = default \ {req[t].id}]
    /\ UNCHANGED <<house, default, refs, clock, raced, halved, unguarded, requests, faults>>

\* One update of the loop, an error if the warehouse is gone.
ClearOne(t, w) ==
    /\ req[t].pc \in {"create", "write"} /\ w \in req[t].todo
    /\ default' = default \ {w}
    /\ Wrote(t, IF w \in house THEN [req[t] EXCEPT !.todo = @ \ {w}] ELSE Idle, FALSE)
    /\ UNCHANGED <<house, refs, clock, halved, unguarded, requests, faults>>

\* create_document
CreateWrite(t) ==
    /\ req[t].pc = "create" /\ req[t].todo = {}
    /\ house' = house \cup {req[t].id}
    /\ default' = IF req[t].mark THEN default \cup {req[t].id} ELSE default
    /\ Wrote(t, Idle, req[t].mark)
    /\ UNCHANGED <<refs, clock, halved, unguarded, requests, faults>>

\* update_document, an error if the warehouse is gone.
Write(t) ==
    LET w == req[t].id
    IN  /\ req[t].pc = "write" /\ req[t].todo = {}
        /\ default' = IF w \in house /\ req[t].mark THEN default \cup {w} ELSE default \ {w}
        /\ Wrote(t, Idle, w \in house /\ req[t].mark)
        /\ UNCHANGED <<house, refs, clock, halved, unguarded, requests, faults>>

----------------------------------------------------------------------------
\* delete_warehouse up to load_owned_warehouse.
Delete(t, w) ==
    /\ req[t] = Idle /\ Accept /\ w \in house
    /\ req' = [req EXCEPT ![t] = [Idle EXCEPT !.pc = "guard", !.id = w, !.mark = w \in default,
                                              !.late = Halfway]]
    /\ UNCHANGED <<house, default, refs, clock, raced, halved, unguarded, faults>>

\* MUTANT: the guard looks at the warehouses of other sellers.
GuardElsewhere(t) ==
    /\ req[t].pc = "guard"
    /\ req' = [req EXCEPT ![t].pc = IF req[t].mark THEN "oldest" ELSE "delete"]
    /\ UNCHANGED <<house, default, refs, clock, raced, halved, unguarded, requests, faults>>

\* No product refers to the warehouse, else the request is refused.
Guard(t) ==
    /\ req[t].pc = "guard"
    /\ IF req[t].id \in refs THEN Done(t)
       ELSE req' = [req EXCEPT ![t].pc = IF req[t].mark THEN "oldest" ELSE "delete"]
    /\ UNCHANGED <<house, default, refs, clock, raced, halved, unguarded, requests, faults>>

\* The oldest other warehouse.
Oldest(t) ==
    LET others == house \ {req[t].id}
    IN  /\ req[t].pc = "oldest"
        /\ req' = [req EXCEPT ![t].pc = IF others = {} THEN "delete" ELSE "promote",
                              ![t].next = IF others = {} THEN 0 ELSE Min(others)]
        /\ UNCHANGED <<house, default, refs, clock, raced, halved, unguarded, requests, faults>>

\* It becomes the default, an error if it is gone.
Promote(t) ==
    LET w == req[t].next
    IN  /\ req[t].pc = "promote"
        /\ default' = IF w \in house THEN default \cup {w} ELSE default
        /\ Wrote(t, IF w \in house THEN [req[t] EXCEPT !.pc = "delete"] ELSE Idle, w \in house)
        /\ UNCHANGED <<house, refs, clock, halved, unguarded, requests, faults>>

\* delete_document, an error if the warehouse is gone.
DeleteWrite(t) ==
    LET w == req[t].id
    IN  /\ req[t].pc = "delete"
        /\ house' = house \ {w} /\ default' = default \ {w}
        /\ Wrote(t, Idle, FALSE)
        /\ UNCHANGED <<refs, clock, halved, unguarded, requests, faults>>

\* A product is written with the warehouse among its warehouseIds, by crud.rs or a
\* GraphQL mutation; neither looks at the warehouse.
Link(w) ==
    /\ w \in house /\ w \notin refs /\ Accept
    /\ refs' = refs \cup {w}
    /\ unguarded' = IF \E t \in Task : req[t].id = w /\ req[t].pc \in {"oldest", "promote", "delete"}
                    THEN unguarded \cup {w} ELSE unguarded
    /\ UNCHANGED <<house, default, clock, req, raced, halved, faults>>

\* No product refers to it any more.
Unlink(w) ==
    /\ w \in refs /\ refs' = refs \ {w}
    /\ UNCHANGED <<house, default, clock, req, raced, halved, unguarded, requests, faults>>

\* A statement fails or the request is dropped at an await.
Drop(t) ==
    /\ req[t] # Idle /\ faults < MaxFaults /\ faults' = faults + 1
    /\ halved' = (halved \/ (req[t].pc = "delete" /\ req[t].next # 0))
    /\ Done(t)
    /\ UNCHANGED <<house, default, refs, clock, raced, unguarded, requests>>

Next ==
    \/ \E w \in house \cup refs : Link(w) \/ Unlink(w)
    \/ \E t \in Task :
          \/ Select(t) \/ CreateWrite(t) \/ Write(t) \/ Guard(t) \/ Oldest(t) \/ Promote(t)
          \/ DeleteWrite(t) \/ Drop(t)
          \/ \E d \in BOOLEAN : Create(t, d) \/ \E w \in house : Update(t, w, d)
          \/ \E w \in house : Delete(t, w)
          \/ \E w \in req[t].todo : ClearOne(t, w)

Spec == Init /\ [][Next]_vars

----------------------------------------------------------------------------
\* The variables have their types.
TypeOK ==
    /\ house \subseteq 1..clock /\ default \subseteq house
    /\ refs \subseteq 1..clock /\ unguarded \subseteq 1..clock
    /\ \A t \in Task :
          /\ req[t].pc \in {"idle", "create", "select", "write", "guard", "oldest", "promote",
                            "delete"}
          /\ {req[t].id, req[t].next} \subseteq 0..clock /\ req[t].todo \subseteq 1..clock
    /\ {raced, halved} \subseteq BOOLEAN /\ {clock, requests, faults} \subseteq Nat

\* At most one warehouse is the default, not counting one whose deletion has promoted
\* its successor; unless a request marked one although another request had marked one
\* since it began or a deletion was halfway then, or a deletion ended halfway.
OneDefault ==
    \/ raced \/ halved
    \/ \A a, b \in default \ {req[t].id : t \in {x \in Task : req[x].pc = "delete"}} : a = b

\* When the deletion of the default ends, a default is left or no warehouse; unless it
\* failed, or another request wrote in between.
Successor ==
    [][\A t \in Task :
          /\ req[t].pc \in {"promote", "delete"} /\ req'[t] = Idle
          /\ req[t].mark /\ ~req[t].stirred /\ faults' = faults
          => default' # {} \/ house' = {}]_vars

\* A product refers to a deleted warehouse only if it was linked after the deletion had
\* looked at the products.
NoDangling == refs \subseteq house \cup unguarded
==============================================================================

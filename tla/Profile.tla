------------------------------- MODULE Profile -------------------------------
(***************************************************************************)
(* Collections of a user with a default among them, beside each other: the *)
(* addresses of a buyer (AddressBook) and the warehouses of a seller       *)
(* (Warehouses, on variables of its own).                                  *)
(***************************************************************************)
EXTENDS AddressBook

VARIABLES house, hdefault, refs, hclock, hreq, hraced, halved, unguarded, hrequests, hfaults

houseVars == <<house, hdefault, refs, hclock, hreq, hraced, halved, unguarded, hrequests,
               hfaults>>

W == INSTANCE Warehouses
        WITH default <- hdefault, clock <- hclock, req <- hreq, raced <- hraced,
             requests <- hrequests, faults <- hfaults

\* A seller's warehouses have one default, the deletion of the default leaves another
\* one, and no product refers to a deleted warehouse, but for requests that crossed.
WarehousesSafe == [](W!TypeOK /\ W!OneDefault /\ W!NoDangling) /\ W!Successor
==============================================================================

--------------------------- MODULE SessionLedger ---------------------------
(***************************************************************************)
(* What the refresh-token service promises, without accounts rows, reads   *)
(* or replies: a ledger of open sessions.                                  *)
(*                                                                         *)
(* A session is opened for an account that was granted a login, or in      *)
(* exchange for a session that was still open when a renewal ticket was    *)
(* taken for it; a ticket is good for one session, and the session it was  *)
(* taken for is closed by its use.  Closing all sessions of an account     *)
(* leaves the grants and tickets already taken in force: nothing else may  *)
(* bring the account back.                                                 *)
(***************************************************************************)
CONSTANTS Accounts, Sessions, Slots, None

VARIABLES holder,  \* account of each session that was ever opened, else None
          open,    \* the sessions that are open
          grant,   \* account each slot may open a session for, or None
          ticket   \* session each slot may renew, or None

ledger == <<holder, open, grant, ticket>>

FreeSlot(r) == grant[r] = None /\ ticket[r] = None

Init == /\ holder = [s \in Sessions |-> None]
        /\ open   = {}
        /\ grant  = [r \in Slots |-> None]
        /\ ticket = [r \in Slots |-> None]

Grant(r, a) == /\ FreeSlot(r)
               /\ grant' = [grant EXCEPT ![r] = a]
               /\ UNCHANGED <<holder, open, ticket>>

TakeTicket(r, s) == /\ FreeSlot(r)
                    /\ s \in open
                    /\ ticket' = [ticket EXCEPT ![r] = s]
                    /\ UNCHANGED <<holder, open, grant>>

Forgo(r) == /\ ~FreeSlot(r)
            /\ grant'  = [grant EXCEPT ![r] = None]
            /\ ticket' = [ticket EXCEPT ![r] = None]
            /\ UNCHANGED <<holder, open>>

Open(r, s) == /\ grant[r] # None
              /\ holder[s] = None
              /\ holder' = [holder EXCEPT ![s] = grant[r]]
              /\ open'   = open \cup {s}
              /\ grant'  = [grant EXCEPT ![r] = None]
              /\ UNCHANGED ticket

Renew(r, s) == /\ ticket[r] # None
               /\ holder[s] = None
               /\ holder' = [holder EXCEPT ![s] = holder[ticket[r]]]
               /\ open'   = (open \ {ticket[r]}) \cup {s}
               /\ ticket' = [ticket EXCEPT ![r] = None]
               /\ UNCHANGED grant

CloseAll(a) == /\ open' = {s \in open : holder[s] # a}
               /\ UNCHANGED <<holder, grant, ticket>>

Lapse(s) == /\ open' = open \ {s}
            /\ UNCHANGED <<holder, grant, ticket>>

Next == \/ \E r \in Slots : \/ \E a \in Accounts : Grant(r, a)
                            \/ \E s \in Sessions : TakeTicket(r, s)
                            \/ \E s \in Sessions : Open(r, s)
                            \/ \E s \in Sessions : Renew(r, s)
                            \/ Forgo(r)
        \/ \E a \in Accounts : CloseAll(a)
        \/ \E s \in Sessions : Lapse(s)

Spec == Init /\ [][Next]_ledger

=============================================================================

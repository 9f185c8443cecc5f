--------------------------- MODULE OrderLifecycle ---------------------------
(***************************************************************************)
(* What a trading account promises about the life of an order, whatever    *)
(* the order type, the prices and the funds: an identifier is given once,  *)
(* in increasing order, and an order that has been filled or cancelled     *)
(* never comes back.  PaperTrading implements this specification.          *)
(***************************************************************************)
EXTENDS Naturals

CONSTANT MaxOrders  \* bound on the identifiers handed out, a natural number

VARIABLES issued,   \* number of identifiers handed out so far
          open,     \* orders that may still be filled or cancelled
          filled    \* orders that have been executed

lifecycleVars == <<issued, open, filled>>

Ids == 1 .. MaxOrders

LifecycleInit == issued = 0 /\ open = {} /\ filled = {}

\* An order is accepted under the next identifier and stays open.
Submit == /\ issued < MaxOrders
          /\ issued' = issued + 1
          /\ open' = open \cup {issued + 1}
          /\ UNCHANGED filled

\* An order is accepted under the next identifier and executed at once.
SubmitAndFill == /\ issued < MaxOrders
                 /\ issued' = issued + 1
                 /\ filled' = filled \cup {issued + 1}
                 /\ UNCHANGED open

FillOpen(id) == /\ id \in open
                /\ open' = open \ {id}
                /\ filled' = filled \cup {id}
                /\ UNCHANGED issued

Cancel(id) == /\ id \in open
              /\ open' = open \ {id}
              /\ UNCHANGED <<issued, filled>>

LifecycleNext == \/ Submit
                 \/ SubmitAndFill
                 \/ \E id \in Ids : FillOpen(id) \/ Cancel(id)

LifecycleSpec == LifecycleInit /\ [][LifecycleNext]_lifecycleVars
=============================================================================

------------------------------- MODULE MCDemoRun -------------------------------
(* One demo run or demo continuous on an appliance with one destination of    *)
(* the pool, which an earlier run left denied, and one that has a history.    *)
(* The list bears on no property of demo continuous, which syncs after its    *)
(* reset only: it has no uploads of its own there and no watching loop.       *)
EXTENDS DemoRun

CONSTANTS dropfiles, crm, invented

Once == [run |-> 1, continuous |-> 0]
Troubles == [run |-> 1, continuous |-> 2]
===============================================================================

-------------------------------- MODULE Poll --------------------------------
(***************************************************************************)
(* What the table of `nodectl` promises its reader, without a word about   *)
(* sockets: a refresh starts only when every node of the previous one has  *)
(* been given a row, and a row is either a failure or an answer that this  *)
(* very node gave to this very refresh.  render_status_table (cli.c) is    *)
(* the code that makes the promise; module Fetch is shown to keep it.      *)
(***************************************************************************)
EXTENDS Naturals

CONSTANTS
    Nodes,      \* the inventory
    NoNode,     \* "nobody answered"
    MaxTicks    \* bound: refreshes of the table

VARIABLES
    tick,       \* refreshes started so far
    shown       \* shown[w]: the row of node w in the current refresh

vars == <<tick, shown>>

Blank       == [kind |-> "blank",  from |-> NoNode, tick |-> 0]
Failed      == [kind |-> "failed", from |-> NoNode, tick |-> 0]
Answer(w,t) == [kind |-> "ok",     from |-> w,      tick |-> t]

Init == /\ tick = 0
        /\ shown = [w \in Nodes |-> Blank]

\* A new refresh: all rows of the previous one are in (thread join in cli.c).
Refresh == /\ tick < MaxTicks
           /\ tick > 0 => \A w \in Nodes : shown[w] # Blank
           /\ tick' = tick + 1
           /\ shown' = [w \in Nodes |-> Blank]

\* Node w gets its row, once per refresh.
Fill(w) == /\ tick > 0
           /\ shown[w] = Blank
           /\ \E r \in {Failed, Answer(w, tick)} : shown' = [shown EXCEPT ![w] = r]
           /\ UNCHANGED tick

Next == Refresh \/ \E w \in Nodes : Fill(w)

Spec == Init /\ [][Next]_vars
=============================================================================

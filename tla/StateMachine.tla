---------------------------- MODULE StateMachine ----------------------------
(***************************************************************************)
(* The event table of NetInterop.Routing/StateMachine.cs, shared by the    *)
(* OSPF interface and neighbour machines.  A table is a set of rows; the   *)
(* constructors below are the overloads of Add, and the three queries are  *)
(* what RaiseEvent and GetNext read.                                       *)
(*                                                                         *)
(* Two things the reader should not take for granted, both true of the     *)
(* code: RaiseEvent never moves the machine to the next state of a row     *)
(* (only a handler that calls GetNext does), and the overload that takes   *)
(* an entry mode but no next state registers one state whatever the mode.  *)
(***************************************************************************)
EXTENDS Naturals

\* The enumerations: a state is a name, Ord gives its integer value.
Rows(states, evt, nextMode, next) ==
  {[state |-> s, event |-> evt, mode |-> nextMode, next |-> next] : s \in states}

\* The keys the core overload fills for each entry mode.
Covered(Ord, s, entry) ==
  CASE entry = "Any"     -> DOMAIN Ord
    [] entry = "AtLeast" -> {k \in DOMAIN Ord : Ord[k] >= Ord[s]}
    [] entry = "Equals"  -> {s}

\* Add(state, evt, action) and Add(state, evt, action, nextState).
AddAction(s, evt) == Rows({s}, evt, "Unknown", "none")
AddActionNext(s, evt, next) == Rows({s}, evt, "Defined", next)

\* Add(state, evt, action, mode): the mode is accepted and not used.
AddActionMode(Ord, s, evt, entry) == Rows(Covered(Ord, s, "Equals"), evt, "Unknown", "none")

\* Add(state, evt, action, mode, nextState).
AddActionModeNext(Ord, s, evt, entry, next) ==
  Rows(Covered(Ord, s, entry), evt, "Defined", next)

\* Add(state, evt, [action,] mode, nextStateMode).
AddMode(Ord, s, evt, entry, nextMode) == Rows(Covered(Ord, s, entry), evt, nextMode, "none")

\* Add(evt, action): "any" is dropped with the mode, and the row goes to the state
\* whose value is zero, if the enumeration has one.
AddDefault(Ord, evt) == Rows({s \in DOMAIN Ord : Ord[s] = 0}, evt, "Unknown", "none")

\* Add(evt, action, nextState): every state of the enumeration.
AddAnyNext(Ord, evt, next) == Rows(DOMAIN Ord, evt, "Defined", next)

-----------------------------------------------------------------------------

\* RaiseEvent finds a row; without one it throws "event not found".
Registered(table, s, evt) == \E r \in table : r.state = s /\ r.event = evt

\* RaiseEvent calls the handler of the row.
Runs(table, s, evt) ==
  \E r \in table : r.state = s /\ r.event = evt /\ r.mode # "NoAction"

\* GetNext: the next state a row declares, "none" when it declares none.
NextOf(table, s, evt) ==
  IF \E r \in table : r.state = s /\ r.event = evt /\ r.mode = "Defined"
    THEN (CHOOSE r \in table : r.state = s /\ r.event = evt).next
    ELSE "none"
=============================================================================

----------------------------- MODULE Selection -----------------------------
(***************************************************************************)
(* What the terminal interface shows as selected and what its keys then    *)
(* act on (crates/tui/src/state.rs, actions.rs and the loop of             *)
(* event_loop.rs): the sidebar of stacks with the row of shared services,  *)
(* the tabs of the selected row, and the actions panel, whose catalog is   *)
(* loaded in the background and whose task runs apart.                     *)
(* Positions count from 1; 0 stands for None.                              *)
(***************************************************************************)
EXTENDS Integers, SequencesExt, FiniteSetsExt, Filters

CONSTANTS
  Stack,          \* ids of stacks
  Home,           \* the one the interface was started in
  Reports,        \* what a stack's daemon may report: sequences of services
  SharedReports,  \* and a shared supervisor
  None            \* no stack, no service

ASSUME SelectionAssumption ==
  /\ Home \in Stack /\ None \notin Stack
  /\ \A q \in Reports \cup SharedReports : q \in Seq(Range(q)) /\ None \notin Range(q)

VARIABLES
  rows,        \* TuiState.instances: a sequence of [id, services, pick]
  selected,    \* selected_instance
  common,      \* TuiState.shared: [up, services, pick]
  onShared,    \* shared_selected
  homeDone,    \* home_selected
  panel,       \* ActionPanel: target, catalog (of which stack), visible; and
               \* whether StartupRailChoice is pending
  loads,       \* the stacks whose catalog is being loaded
  running,     \* the task that runs: in which stack, from which one's catalog
  parked       \* TuiState.stopped, and had_live_daemon

selectionvars == <<rows, selected, common, onShared, homeDone, panel, loads, running, parked>>

NoRun == [in |-> None, of |-> None]
NoShared == [up |-> FALSE, services |-> <<>>, pick |-> 0]

(* The panel starts on the home stack, over the rail. *)
SelectionInit ==
  /\ rows = <<>> /\ selected = 0 /\ common = NoShared /\ onShared = FALSE /\ homeDone = FALSE
  /\ panel = [target |-> Home, catalog |-> Home, visible |-> TRUE, pending |-> TRUE]
  /\ loads = {}
  /\ running = NoRun /\ parked = [stopped |-> FALSE, had |-> FALSE]

-----------------------------------------------------------------------------
(* What is shown. *)

Place(i) == LET at == {n \in DOMAIN rows : rows[n].id = i} IN IF at = {} THEN 0 ELSE Max(at)
Current == IF selected \in DOMAIN rows THEN rows[selected] ELSE [id |-> None, services |-> <<>>, pick |-> 0]

(* instance_only_services: what the shared row has too is not the stack's. *)
OwnServices == Without(Current.services, Range(common.services))
HasPlaceholder == ~onShared /\ common.services # <<>> /\ OwnServices = <<>>

Tab(s, kind) == [service |-> s, kind |-> kind]
Tabs ==
  LET Of(q, kind) == [n \in DOMAIN q |-> Tab(q[n], kind)] IN
  (IF onShared THEN <<>> ELSE IF HasPlaceholder THEN <<Tab(None, "placeholder")>> ELSE Of(OwnServices, "owned"))
  \o Of(common.services, "shared")

Pick == IF onShared THEN common.pick ELSE Current.pick
Highlighted == IF Pick \in DOMAIN Tabs THEN Pick ELSE 1

(* selected_service: the position in one list, then in the other. *)
ServiceAt(q, n) == IF n \in DOMAIN q THEN q[n] ELSE None
SelectedService ==
  IF Pick = 0 THEN None
  ELSE IF onShared THEN ServiceAt(common.services, Pick)
  ELSE IF HasPlaceholder THEN ServiceAt(common.services, Pick - 1)
  ELSE IF Pick <= Len(OwnServices) THEN OwnServices[Pick]
  ELSE ServiceAt(common.services, Pick - Len(OwnServices))

(* selected_instance_and_service: where a key's command goes. *)
CommandTarget ==
  IF SelectedService = None THEN None
  ELSE IF onShared \/ Contains(common.services, SelectedService) THEN "shared"
  ELSE Current.id

(* current_action_target *)
ActionTarget == IF onShared THEN None ELSE Current.id

-----------------------------------------------------------------------------
(* Messages.  Before each event the loop goes to the home row, once. *)

HomeDue == ~homeDone /\ Place(Home) # 0

GoHome ==
  /\ HomeDue /\ homeDone' = TRUE /\ selected' = Place(Home)
  /\ UNCHANGED <<rows, common, onShared, panel, loads, running, parked>>

AllGone(rs) == \A n \in DOMAIN rs : rs[n].services = <<>>

(* The check after each message; entering the stopped state leaves the     *)
(* actions panel as it is.                                                 *)
Parked(rs, had) == [had |-> had, stopped |-> had /\ AllGone(rs)]

(* Subscribed: upsert_instance, and a first choice of service.  The first  *)
(* of the home stack closes the actions if services run already and the    *)
(* user has not touched them (StartupRailChoice).                          *)
Subscribed(i, report) ==
  LET first(p) == IF p = 0 /\ report # <<>> THEN 1 ELSE p
      at == Place(i)
      rs == IF at = 0 THEN Append(rows, [id |-> i, services |-> report, pick |-> first(0)])
            ELSE [rows EXCEPT ![at] = [id |-> i, services |-> report, pick |-> first(@.pick)]]
  IN
  /\ ~HomeDue /\ rows' = rs
  /\ selected' = IF selected = 0 THEN Len(rs) ELSE selected
  /\ parked' = Parked(rs, TRUE)
  /\ panel' \in IF i = Home /\ panel.pending
                 THEN {[panel EXCEPT !.pending = FALSE, !.visible = v] : v \in {FALSE, panel.visible}}
                 ELSE {panel}
  /\ UNCHANGED <<common, onShared, homeDone, loads, running>>

(* Goodbye takes the row away, and so does the end of a worktree. *)
WithoutRow(i) == Without(rows, {r \in Range(rows) : r.id = i})
Reselected(rs) == IF rs = <<>> THEN 0 ELSE Min({selected, Len(rs)})

Goodbye(i) ==
  /\ ~HomeDue /\ rows' = WithoutRow(i) /\ selected' = Reselected(rows')
  /\ parked' = Parked(rows', parked.had)
  /\ UNCHANGED <<common, onShared, homeDone, panel, loads, running>>

Removed(i) ==
  /\ ~HomeDue /\ Place(i) # 0 /\ rows' = WithoutRow(i) /\ selected' = Reselected(rows')
  /\ UNCHANGED <<common, onShared, homeDone, panel, loads, running, parked>>

(* add_placeholder_instance *)
Discovered(i) ==
  /\ ~HomeDue /\ Place(i) = 0
  /\ rows' = Append(rows, [id |-> i, services |-> <<>>, pick |-> 0])
  /\ selected' = IF selected = 0 THEN 1 ELSE selected
  /\ UNCHANGED <<common, onShared, homeDone, panel, loads, running, parked>>

SharedSubscribed(report) ==
  /\ ~HomeDue
  /\ common' = [up |-> TRUE, services |-> report,
                pick |-> IF common.pick = 0 /\ report # <<>> THEN 1 ELSE common.pick]
  /\ parked' = Parked(rows, parked.had)
  /\ UNCHANGED <<rows, selected, onShared, homeDone, panel, loads, running>>

SharedGoodbye ==
  /\ ~HomeDue /\ common.up /\ common' = NoShared
  /\ parked' = Parked(rows, parked.had)
  /\ UNCHANGED <<rows, selected, onShared, homeDone, panel, loads, running>>

-----------------------------------------------------------------------------
(* Keys and clicks.  The panel, when it is open, comes before all else;    *)
(* the stopped screen takes the rest.                                      *)

HasShared == common.services # <<>>

Move(sel, on) ==
  /\ ~HomeDue /\ ~parked.stopped /\ (rows # <<>> \/ HasShared)
  /\ selected' = sel /\ onShared' = on
  /\ UNCHANGED <<rows, common, homeDone, panel, loads, running, parked>>

NextStack ==
  \/ onShared /\ rows # <<>> /\ Move(1, FALSE)
  \/ ~onShared /\ selected < Len(rows) /\ Move(selected + 1, FALSE)
  \/ ~onShared /\ selected >= Len(rows) /\ HasShared /\ Move(selected, TRUE)
  \/ ~onShared /\ selected >= Len(rows) /\ ~HasShared /\ Move(1, FALSE)

PrevStack ==
  \/ onShared /\ rows # <<>> /\ Move(Len(rows), FALSE)
  \/ ~onShared /\ selected > 1 /\ Move(selected - 1, FALSE)
  \/ ~onShared /\ selected <= 1 /\ HasShared /\ Move(selected, TRUE)
  \/ ~onShared /\ selected <= 1 /\ ~HasShared /\ Move(Len(rows), FALSE)

(* set_active_selected_service, from the keys or a click on a tab. *)
PickTab(n) ==
  /\ ~HomeDue /\ (panel.visible \/ ~parked.stopped) /\ Tabs # <<>>
  /\ IF onShared THEN common' = [common EXCEPT !.pick = n] /\ UNCHANGED rows
     ELSE /\ rows' = IF selected \in DOMAIN rows THEN [rows EXCEPT ![selected].pick = n] ELSE rows
          /\ UNCHANGED common
  /\ UNCHANGED <<selected, onShared, homeDone, panel, loads, running, parked>>

(* An unset choice counts as the first tab; a position beyond the last is  *)
(* taken as it stands.                                                     *)
NextService == Tabs # <<>> /\ PickTab(((IF Pick = 0 THEN 1 ELSE Pick) % Len(Tabs)) + 1)
PrevService == PickTab(IF Pick <= 1 THEN Len(Tabs) ELSE Pick - 1)

(* ToggleActions: another stack's catalog has to be loaded. *)
OpenActions ==
  /\ ~HomeDue /\ ~panel.visible /\ ~parked.stopped /\ ActionTarget # None
  /\ IF panel.target = ActionTarget
       THEN panel' = [panel EXCEPT !.visible = TRUE, !.pending = FALSE] /\ UNCHANGED loads
       ELSE /\ panel' = [target |-> ActionTarget, catalog |-> None, visible |-> TRUE, pending |-> FALSE]
            /\ loads' = loads \cup {ActionTarget}
  /\ UNCHANGED <<rows, selected, common, onShared, homeDone, running, parked>>

CloseActions ==
  /\ ~HomeDue /\ panel.visible /\ panel' = [panel EXCEPT !.visible = FALSE, !.pending = FALSE]
  /\ UNCHANGED <<rows, selected, common, onShared, homeDone, loads, running, parked>>

(* Mutant: any catalog is taken that arrives. *)
Whichever(i) == TRUE

(* Is the loaded catalog the one the panel waits for? *)
Awaited(i) == panel.target = i

(* apply_catalog or fail_loading. *)
Loaded(i) ==
  /\ ~HomeDue /\ i \in loads /\ loads' = loads \ {i}
  /\ panel' \in IF Awaited(i) THEN {[panel EXCEPT !.catalog = c] : c \in {i, None}} ELSE {panel}
  /\ UNCHANGED <<rows, selected, common, onShared, homeDone, running, parked>>

(* Enter in the panel: start_activity. *)
RunTask ==
  /\ ~HomeDue /\ panel.visible /\ running = NoRun /\ panel.catalog # None
  /\ running' = [in |-> panel.target, of |-> panel.catalog]
  /\ panel' = [panel EXCEPT !.pending = FALSE]
  /\ UNCHANGED <<rows, selected, common, onShared, homeDone, loads, parked>>

(* TaskUpdate::Finished *)
Finished ==
  /\ ~HomeDue /\ running # NoRun /\ running' = NoRun
  /\ UNCHANGED <<rows, selected, common, onShared, homeDone, panel, loads, parked>>

-----------------------------------------------------------------------------
SelectionNext ==
  \/ GoHome
  \/ \E i \in Stack, q \in Reports : Subscribed(i, q)
  \/ \E i \in Stack : Goodbye(i) \/ Removed(i) \/ Discovered(i) \/ Loaded(i)
  \/ \E q \in SharedReports : SharedSubscribed(q)
  \/ SharedGoodbye
  \/ NextStack \/ PrevStack \/ NextService \/ PrevService
  \/ \E n \in DOMAIN rows : Move(n, FALSE)
  \/ HasShared /\ Move(selected, TRUE)
  \/ \E n \in DOMAIN Tabs : PickTab(n)
  \/ OpenActions \/ CloseActions \/ RunTask \/ Finished

SelectionSpec == SelectionInit /\ [][SelectionNext]_selectionvars

-----------------------------------------------------------------------------
(* A service is selected only if its tab is the one highlighted, and the   *)
(* command goes to the daemon that owns that tab. *)
CommandsGoToTheTab ==
  SelectedService # None =>
    LET tab == Tabs[Highlighted] IN
    /\ tab.service = SelectedService
    /\ CommandTarget = IF tab.kind = "shared" THEN "shared" ELSE Current.id

(* The panel lists the tasks of its target only, and a task runs in the    *)
(* stack it was listed for, whatever was loaded, selected or removed       *)
(* meanwhile. *)
TasksRunWhereListed ==
  /\ panel.catalog \in {panel.target, None}
  /\ running.in = running.of

(* Keys act on what the screen shows: commands on the highlighted tab,     *)
(* Enter on the listed tasks, and the selection is a row that exists       *)
(* (selected_service against tab_services; target_matches in the loop). *)
ShownIsMeant ==
  /\ CommandsGoToTheTab
  /\ TasksRunWhereListed
  /\ selected = 0 <=> rows = <<>>
  /\ selected <= Len(rows)

-----------------------------------------------------------------------------
(***************************************************************************)
(* What comments of crates/tui say of the selection and its keys and TLC   *)
(* refutes in the instance of the run Interface; the third needs three     *)
(* stacks.                                                                 *)
(***************************************************************************)

(* "Any in-flight overlay is dismissed so the stopped screen owns the      *)
(* frame and its keys aren't shadowed by a stale modal handler" (state.rs: *)
(* enter_stopped): the actions panel stays open, and its arm comes first:  *)
(* Enter runs a task where the screen says it brings the stack up.         *)
StoppedOwnsKeys == parked.stopped => ~panel.visible

(* "Falls back to the first tab (the default focus) when unset" (state.rs: *)
(* selected_tab_index), and the keys act on the highlighted tab: when a    *)
(* shared supervisor leaves, a choice beyond the last tab highlights the   *)
(* first while selected_service is None, so start, stop and restart do     *)
(* nothing.                                                                *)
HighlightedIsSelected == Tabs # <<>> /\ ~HasPlaceholder => SelectedService # None

(* "keeping the selection on a valid row" (state.rs: remove_instance), and *)
(* on the chosen one: the row above it leaves and another is selected.     *)
ChosenStays ==
  [][\A i \in Stack : ~HomeDue /\ Goodbye(i) /\ Current.id \notin {i, None} =>
       rows'[selected'].id = Current.id]_selectionvars
=============================================================================

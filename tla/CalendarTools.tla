--------------------------- MODULE CalendarTools ---------------------------
(***************************************************************************)
(* The command line tools that keep a Google calendar beside the slots:    *)
(* cli/generate_calendar.py, calendar/generate_calendar.py (push_events),  *)
(* calendar/calendar_manager.py (the app's own calendar) and               *)
(* cli/clear_calendar.py.  A person runs one command at a time; videos are *)
(* assigned to slots meanwhile.  Every call to Google is a step of its     *)
(* own that may fail, and a command may die between any two of them.       *)
(***************************************************************************)
EXTENDS Integers

CONSTANTS
    Times,      \* the posting times of the month, in order
    Videos,
    Calendars,  \* the calendars Google may create, and one named on the command line
    Named,      \* that one
    MaxEvents,  \* bound
    None

ASSUME CalendarAssumption == Named \in Calendars /\ MaxEvents \in Nat /\ None \notin Times

VARIABLES
    calendars,  \* those that exist
    saved,      \* calendar_state.json
    events,     \* [id, calendar, time]
    slots,      \* content_slots
    slotOf,     \* videos.assigned_slot_id
    cmd,        \* the command that runs
    created     \* how many app calendars were ever created

vars == <<calendars, saved, events, slots, slotOf, cmd, created>>

NoSlot == [status |-> "absent", event |-> 0]
NoCommand == [name |-> "none", at |-> "idle", target |-> None,
              todo |-> {}, open |-> {}, event |-> 0]
AppCalendars == Calendars \ {Named}

TypeOK ==
    /\ calendars \subseteq Calendars /\ saved \in AppCalendars \cup {None}
    /\ events \subseteq [id : 1..MaxEvents, calendar : Calendars, time : Times]
    /\ slots \in [Times -> [status : {"absent", "OPEN", "ASSIGNED"}, event : 0..MaxEvents]]
    /\ slotOf \in [Videos -> Times \cup {None}]
    /\ cmd.name \in {"none", "generate", "clear", "clear_all", "clear_named"}
    /\ cmd.todo \subseteq Times /\ cmd.open \subseteq Times

Init ==
    /\ calendars = {Named} /\ saved = None /\ events = {}
    /\ slots = [t \in Times |-> NoSlot]
    /\ slotOf = [v \in Videos |-> None]
    /\ cmd = NoCommand
    /\ created = 0

SavedStay == UNCHANGED <<calendars, saved, created>>
RowsStay == UNCHANGED <<slots, slotOf>>
EndCommand == cmd' = NoCommand

\* Slots and events are taken in the order of their times.
First == {t \in cmd.todo : \A other \in cmd.todo : t <= other}

-----------------------------------------------------------------------------
(* Which calendar: resolve_app_calendar.                                   *)

\* generate_calendar and clear_calendar; with --calendar nothing is resolved,
\* and clear_calendar --calendar does not look at slots.  A dry run of either
\* writes nothing.
StartCommand ==
    /\ cmd.name = "none"
    /\ \/ \E name \in {"generate", "clear", "clear_all"} :
             cmd' = [NoCommand EXCEPT !.name = name, !.at = "authorize"]
       \/ cmd' = [NoCommand EXCEPT !.name = "generate", !.at = "resolved", !.target = Named]
       \/ cmd' = [NoCommand EXCEPT !.name = "clear_named", !.at = "named", !.target = Named]
    /\ SavedStay /\ RowsStay /\ UNCHANGED events

\* build_oauth_calendar_service: no consent, or no refreshed token, no command.
Authorize ==
    /\ cmd.at = "authorize"
    /\ cmd' = [cmd EXCEPT !.at = "state"] \/ EndCommand
    /\ SavedStay /\ RowsStay /\ UNCHANGED events

\* The calendar of the file, if Google knows it (or says so).
CheckSaved ==
    /\ cmd.at = "state"
    /\ \/ saved \in calendars /\ cmd' = [cmd EXCEPT !.at = "resolved", !.target = saved]
       \/ cmd' = [cmd EXCEPT !.at = "find"]
    /\ SavedStay /\ RowsStay /\ UNCHANGED events

\* A file that is missing or does not parse is not looked for by name.
FaultFindExisting ==
    /\ cmd.at = "find" /\ cmd.name = "generate"
    /\ cmd' = [cmd EXCEPT !.at = "create"]
    /\ SavedStay /\ RowsStay /\ UNCHANGED events

\* _find_existing_app_calendar: by name, owned.  clear_calendar gives up if
\* there is none, and an error of the call ends either command.
FindExisting ==
    /\ cmd.at = "find"
    /\ \/ \E c \in calendars \cap AppCalendars : cmd' = [cmd EXCEPT !.at = "save", !.target = c]
       \/ /\ calendars \cap AppCalendars = {} /\ cmd.name = "generate"
          /\ cmd' = [cmd EXCEPT !.at = "create"]
       \/ EndCommand
    /\ SavedStay /\ RowsStay /\ UNCHANGED events

CreateCalendar ==
    /\ cmd.at = "create"
    /\ \E c \in AppCalendars \ calendars :
          /\ calendars' = calendars \cup {c}
          /\ created' = created + 1
          /\ cmd' = [cmd EXCEPT !.at = "save", !.target = c]
    /\ RowsStay /\ UNCHANGED <<saved, events>>

SaveState ==
    /\ cmd.at = "save"
    /\ saved' = cmd.target
    /\ cmd' = [cmd EXCEPT !.at = "resolved"]
    /\ RowsStay /\ UNCHANGED <<calendars, events, created>>

-----------------------------------------------------------------------------
(* generate_calendar: push_events.                                         *)

\* build_schedule: the times that are still to come.
StartPush ==
    /\ cmd.at = "resolved" /\ cmd.name = "generate"
    /\ \E past \in Times \cup {0} :
          cmd' = [cmd EXCEPT !.at = "push", !.todo = {t \in Times : t > past}]
    /\ SavedStay /\ RowsStay /\ UNCHANGED events

\* An id that nothing holds stands for one that Google has not given yet.
UsedEvents == {e.id : e \in events} \cup {slots[t].event : t \in Times}

InsertEvent ==
    /\ cmd.at = "push"
    /\ LET free == 1..MaxEvents \ UsedEvents
       IN  \E t \in First, id \in free :
              /\ \A other \in free : id <= other
              /\ events' = events \cup {[id |-> id, calendar |-> cmd.target, time |-> t]}
              /\ cmd' = [cmd EXCEPT !.at = "slot", !.event = id]
    /\ SavedStay /\ RowsStay

\* insert_slot_if_missing: the slot of an earlier run keeps its own event.
InsertSlot ==
    /\ cmd.at = "slot"
    /\ \E t \in First :
          /\ slots' = IF slots[t].status # "absent" THEN slots
                      ELSE [slots EXCEPT ![t] = [status |-> "OPEN", event |-> cmd.event]]
          /\ cmd' = [cmd EXCEPT !.at = "push", !.todo = @ \ {t}, !.event = 0]
    /\ SavedStay /\ UNCHANGED <<events, slotOf>>

\* An event that Google refuses: no slot either, and the next time.
EventRefused ==
    /\ cmd.at = "push"
    /\ \E t \in First : cmd' = [cmd EXCEPT !.todo = @ \ {t}]
    /\ SavedStay /\ RowsStay /\ UNCHANGED events

Done ==
    /\ cmd.at \in {"push", "clear"} /\ cmd.todo = {}
    /\ EndCommand
    /\ SavedStay /\ RowsStay /\ UNCHANGED events

-----------------------------------------------------------------------------
(* clear_calendar.                                                         *)

\* list_slots_by_status; the statuses of this list are used to the end.
ListSlots ==
    /\ cmd.at = "resolved" /\ cmd.name \in {"clear", "clear_all"}
    /\ LET listed == {t \in Times : \/ slots[t].status = "OPEN"
                                    \/ slots[t].status = "ASSIGNED" /\ cmd.name = "clear_all"}
       IN  cmd' = [cmd EXCEPT !.at = "clear", !.todo = listed,
                              !.open = {t \in listed : slots[t].status = "OPEN"}]
    /\ SavedStay /\ RowsStay /\ UNCHANGED events

\* unassign_video_for_slot, for a slot that was listed as assigned.
UnassignVideo ==
    /\ cmd.at = "clear"
    /\ \E t \in First :
          slotOf' = [v \in Videos |->
                        IF slotOf[v] = t /\ t \notin cmd.open THEN None ELSE slotOf[v]]
    /\ cmd' = [cmd EXCEPT !.at = "event"]
    /\ SavedStay /\ UNCHANGED <<events, slots>>

\* Gone already, of another calendar (404), or not deleted: only a warning.
DeleteEvent ==
    /\ cmd.at = "event"
    /\ \/ \E t \in First :
             events' = {e \in events : ~(e.id = slots[t].event /\ e.calendar = cmd.target)}
       \/ UNCHANGED events
    /\ cmd' = [cmd EXCEPT !.at = "delete"]
    /\ SavedStay /\ RowsStay

\* Without the foreign key of videos.assigned_slot_id.
FaultDeleteSlot ==
    /\ cmd.at = "delete"
    /\ \E t \in First :
          /\ slots' = [slots EXCEPT ![t] = NoSlot]
          /\ cmd' = [cmd EXCEPT !.at = "clear", !.todo = @ \ {t}]
    /\ SavedStay /\ UNCHANGED <<events, slotOf>>

\* delete_slot; the foreign key refuses a slot that a video was given since
\* the list was made, and that ends the command.
DeleteSlot ==
    /\ cmd.at = "delete"
    /\ \E t \in First :
          IF \E v \in Videos : slotOf[v] = t
          THEN EndCommand /\ UNCHANGED slots
          ELSE /\ slots' = [slots EXCEPT ![t] = NoSlot]
               /\ cmd' = [cmd EXCEPT !.at = "clear", !.todo = @ \ {t}]
    /\ SavedStay /\ UNCHANGED <<events, slotOf>>

\* clear_calendar --calendar: every event of the range, each deletion on its own.
ClearNamed ==
    /\ cmd.at = "named"
    /\ \E gone \in SUBSET {e \in events : e.calendar = cmd.target} : events' = events \ gone
    /\ EndCommand
    /\ SavedStay /\ RowsStay

-----------------------------------------------------------------------------
(* The rest of the world.                                                  *)

\* assign_slot: the slot is OPEN, the video has none.
Assign(v) ==
    /\ slotOf[v] = None
    /\ \E t \in {u \in Times : slots[u].status = "OPEN"} :
          /\ slots' = [slots EXCEPT ![t].status = "ASSIGNED"]
          /\ slotOf' = [slotOf EXCEPT ![v] = t]
    /\ SavedStay /\ UNCHANGED <<events, cmd>>

\* unassign_slot, from the API.
Unassign(v) ==
    /\ slotOf[v] # None
    /\ slots' = [slots EXCEPT ![slotOf[v]].status = "OPEN"]
    /\ slotOf' = [slotOf EXCEPT ![v] = None]
    /\ SavedStay /\ UNCHANGED <<events, cmd>>

\* The command dies (interrupted, or an error nothing catches).
CommandDies ==
    /\ cmd.name # "none"
    /\ EndCommand
    /\ SavedStay /\ RowsStay /\ UNCHANGED events

\* The file is lost, or does not parse any more.
LoseState ==
    /\ saved # None /\ saved' = None
    /\ RowsStay /\ UNCHANGED <<calendars, events, cmd, created>>

Next ==
    \/ StartCommand \/ Authorize \/ CheckSaved \/ FindExisting \/ CreateCalendar \/ SaveState
    \/ StartPush \/ InsertEvent \/ InsertSlot \/ EventRefused \/ Done
    \/ ListSlots \/ UnassignVideo \/ DeleteEvent \/ DeleteSlot \/ ClearNamed
    \/ (\E v \in Videos : Assign(v) \/ Unassign(v))
    \/ CommandDies \/ LoseState

Spec == Init /\ [][Next]_vars

-----------------------------------------------------------------------------
\* The app's calendar is created once: a file that is lost, a command that
\* died before it wrote the file, a calendar Google could not show for once,
\* none of it makes a second one.
CalendarIsCreatedOnce == created <= 1

\* No clear, and no slot listed before a video took it, leaves a video with a
\* slot that is gone or that is open for another.
VideoHasItsSlot ==
    \A v \in Videos : slotOf[v] # None =>
        /\ slots[slotOf[v]].status = "ASSIGNED"
        /\ \A w \in Videos \ {v} : slotOf[w] # slotOf[v]
=============================================================================

--------------------------- MODULE WeddingEvents ---------------------------
(***************************************************************************)
(* The vocabulary of package internal/event: priorities and the deadline   *)
(* each one grants, event types and the team that handles them, the        *)
(* statuses of an event, and the validation of an event.                   *)
(*                                                                         *)
(* An event is named by its position in the dataset (a member of Events);  *)
(* the fields the program branches on are functions of that name.          *)
(* Descriptions and JSON encoding are left out.                            *)
(***************************************************************************)
EXTENDS Naturals

CONSTANTS Events,      \* the events of one dataset
          Numbered,    \* the events whose Event.ID is positive
          PriorityOf,  \* Event.Priority
          TypeOf,      \* Event.Type
          Deadlines    \* the deadline of each known priority, in clock ticks

-----------------------------------------------------------------------------
Priorities == {"High", "Medium", "Low"}

\* DeadlineDuration has a default branch: an unknown priority gets the
\* ten seconds of PriorityMedium.
DeadlineDuration(p) == IF p \in Priorities THEN Deadlines[p] ELSE Deadlines["Medium"]

Statuses == {"Pending", "Processing", "Completed", "Expired"}

-----------------------------------------------------------------------------
AllTeams == {"catering", "decoration", "photography", "music", "coordinator",
             "floral", "venue", "transport", "security", "medical"}

\* The event types of each team: eventTeamMapping read from the team's side.
TypesOfTeam ==
  [catering    |-> {"meal_service", "cake_delivery", "bar_setup",
                    "dessert_service", "bad_food"},
   decoration  |-> {"table_setup", "flower_arrangement", "lighting_setup",
                    "centerpiece_placement", "dirty_table"},
   photography |-> {"photo_session", "group_photo", "candid_capture",
                    "video_recording"},
   music       |-> {"band_setup", "dj_setup", "first_dance",
                    "live_performance", "music"},
   coordinator |-> {"guest_arrival", "ceremony_start", "reception_start",
                    "schedule_update", "bride", "groom", "not_on_list"},
   floral      |-> {"bouquet_delivery", "floral_setup", "petal_scatter"},
   venue       |-> {"venue_prep", "seating_arrangement", "cleanup",
                    "dirty_floor", "broken_itens"},
   transport   |-> {"guest_pickup", "bridal_transport", "vendor_delivery"},
   security    |-> {"brawl", "accident"},
   medical     |-> {"feeling_ill"}]

EventTypes == UNION {TypesOfTeam[t] : t \in AllTeams}

IsValidEventType(type) == type \in EventTypes

GetTeam(type) == IF IsValidEventType(type)
                 THEN CHOOSE t \in AllTeams : type \in TypesOfTeam[t]
                 ELSE "unknown"

Team(e) == GetTeam(TypeOf[e])

Validate(e) == /\ e \in Numbered
               /\ IsValidEventType(TypeOf[e])
               /\ PriorityOf[e] \in Priorities

-----------------------------------------------------------------------------
\* What the constants must satisfy: deadlines are positive and grow from
\* High to Low, as 5s < 10s < 15s do.
ASSUME DeadlinesAssumption ==
  /\ Deadlines \in [Priorities -> Nat \ {0}]
  /\ Deadlines["High"] < Deadlines["Medium"]
  /\ Deadlines["Medium"] < Deadlines["Low"]
=============================================================================

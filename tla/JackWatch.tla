----------------------------- MODULE JackWatch ------------------------------
(***************************************************************************)
(* check-my-alsa jack: prints which jacks of a card are plugged, then each *)
(* change.  A jack may be plugged and unplugged between any two calls; the *)
(* kernel only tells, once until it is read, that a control has changed.   *)
(***************************************************************************)
EXTENDS Naturals, FiniteSets

CONSTANTS Jacks, MaxBind    (* MAX_BIND_CTLS                               *)

ASSUME JackAssumption == IsFiniteSet(Jacks) /\ MaxBind \in Nat \ {0}

VARIABLES
  jack,                     (* where the program is                        *)
  plugged,                  (* kernel: the jacks plugged                   *)
  news,                     (* kernel: controls an event is queued for     *)
  bound, shownFirst,        (* entries; those print_jack_baseline has done *)
  reading,                  (* entries an event read belongs to            *)
  value, prev_plugged,      (* jacks plugged by the entry's value; prev... *)
  said,                     (* jacks plugged by the last line printed      *)
  interrupted, result

entryVars == <<bound, shownFirst, reading, value, prev_plugged, said>>
jackVars  == <<jack, plugged, news, entryVars, interrupted, result>>

JackTypeOK ==
  /\ jack \in {"off", "open", "subscribe", "fetch", "baseline", "poll", "events", "exit"}
  /\ {plugged, news, bound, value, prev_plugged, said} \subseteq SUBSET Jacks
  /\ shownFirst \subseteq bound /\ reading \subseteq bound /\ Cardinality(bound) <= MaxBind
  /\ interrupted \in BOOLEAN /\ result \in {0, 1, 2}

JackInit ==
  /\ jack = "off" /\ plugged = {} /\ news = {} /\ bound = {} /\ shownFirst = {} /\ reading = {}
  /\ value = {} /\ prev_plugged = {} /\ said = {} /\ interrupted = FALSE /\ result = 0

\* Mutant: it subscribes when it has printed what is plugged.
SubscribesLate == jack \in {"poll", "events"}

\* snd_ctl_subscribe_events comes before the controls are looked at.
Subscribed == jack \in {"fetch", "baseline", "poll", "events"}

-----------------------------------------------------------------------------
JackAt(from, to) == jack = from /\ jack' = to

JackEnds(from, r) == JackAt(from, "exit") /\ result' = r

\* The options, snd_ctl_open and the poll descriptors, snd_ctl_subscribe_events
JackSetup ==
  /\ \/ (JackAt("off", "open") \/ JackAt("open", "subscribe") \/ JackAt("subscribe", "fetch")) /\ UNCHANGED result
     \/ JackEnds("off", 2) \/ JackEnds("open", 1) \/ JackEnds("subscribe", 1)
  /\ UNCHANGED <<plugged, news, entryVars, interrupted>>

\* What fetch_jack_ctls binds of the controls found: at most MaxBind.
Bindable(found) == {b \in SUBSET found : Cardinality(b) <= MaxBind /\ (b = found \/ Cardinality(b) = MaxBind)}

\* fetch_jack_ctls: a control that cannot be inspected is passed over.
FetchJackCtls ==
  /\ \/ \E found \in SUBSET Jacks :
          /\ bound' \in Bindable(found)
          /\ JackAt("fetch", IF bound' = {} THEN "exit" ELSE "baseline") /\ UNCHANGED result
     \/ JackEnds("fetch", 1) /\ UNCHANGED bound
  /\ UNCHANGED <<plugged, news, shownFirst, reading, value, prev_plugged, said, interrupted>>

\* The set s with j in it if it is plugged, and else without.
Reread(s, j) == IF j \in plugged THEN s \cup {j} ELSE s \ {j}

\* print_jack_baseline, one control after the other
PrintBaseline ==
  /\ \/ \E j \in bound \ shownFirst :
          /\ jack = "baseline" /\ shownFirst' = shownFirst \cup {j}
          /\ value' = Reread(value, j) /\ prev_plugged' = Reread(prev_plugged, j) /\ said' = Reread(said, j)
          /\ jack' = (IF shownFirst' = bound THEN "poll" ELSE "baseline") /\ UNCHANGED result
     \/ JackEnds("baseline", 1) /\ UNCHANGED <<shownFirst, value, prev_plugged, said>>
  /\ UNCHANGED <<plugged, news, bound, reading, interrupted>>

\* run_jack_event_loop
PollJacks ==
  /\ \/ JackAt("poll", "events") /\ ~interrupted /\ news # {} /\ UNCHANGED result
     \/ JackEnds("poll", 0) /\ interrupted
     \/ JackEnds("poll", 1) /\ ~interrupted
  /\ UNCHANGED <<plugged, news, entryVars, interrupted>>

\* snd_ctl_read, until there is no event left
ReadEvent ==
  /\ jack = "events" /\ reading = {}
  /\ \/ \E j \in news : news' = news \ {j} /\ reading' = {j} \cap bound /\ UNCHANGED <<jack, result>>
     \/ news = {} /\ JackAt("events", "poll") /\ UNCHANGED <<news, reading, result>>
     \/ JackEnds("events", 1) /\ UNCHANGED <<news, reading>>
  /\ UNCHANGED <<plugged, bound, shownFirst, value, prev_plugged, said, interrupted>>

\* The entry the event is about is read again and compared with what it was.
RereadEntry ==
  /\ jack = "events"
  /\ \E j \in reading :
       \/ /\ reading' = reading \ {j} /\ value' = Reread(value, j)
          /\ IF value' # value
             THEN prev_plugged' = Reread(prev_plugged, j) /\ said' = Reread(said, j)
             ELSE UNCHANGED <<prev_plugged, said>>
          /\ UNCHANGED <<jack, result>>
       \/ JackEnds("events", 1) /\ UNCHANGED <<reading, value, prev_plugged, said>>
  /\ UNCHANGED <<plugged, news, bound, shownFirst, interrupted>>

\* A jack is plugged or unplugged: an event, for who has subscribed.
PlugOrUnplug ==
  /\ jack \notin {"off", "exit"}
  /\ \E j \in Jacks :
       /\ plugged' = (plugged \cup {j}) \ (plugged \cap {j})
       /\ news' = IF Subscribed THEN news \cup {j} ELSE news
  /\ UNCHANGED <<jack, entryVars, interrupted, result>>

JackInterrupt ==
  /\ jack \notin {"off", "exit"} /\ interrupted' = TRUE
  /\ UNCHANGED <<jack, plugged, news, entryVars, result>>

JackNext ==
  \/ JackSetup \/ FetchJackCtls \/ PrintBaseline \/ PollJacks \/ ReadEvent \/ RereadEntry
  \/ PlugOrUnplug \/ JackInterrupt

JackSpec == JackInit /\ [][JackNext]_jackVars

-----------------------------------------------------------------------------
(* Properties.                                                             *)

\* Whenever no event is left to be read, the last line printed for each jack it
\* monitors says what is plugged now, also when the jack was moved while the
\* controls were fetched and first printed or while an event of it was handled;
\* and the state a line starts from is the one the line before it ended with.
LastLineIsTrue ==
  /\ jack = "poll" => \A j \in bound \ news : j \in said <=> j \in plugged
  /\ said = prev_plugged

=============================================================================

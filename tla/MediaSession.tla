---------------------------- MODULE MediaSession ----------------------------
(***************************************************************************)
(* server/media_session.c: controllees (players) in the order of their     *)
(* activity, and controllers that steer the most active one.               *)
(*                                                                         *)
(* The daemon handles one message at a time, so every message is one       *)
(* action.  A controllee or controller is named by its client.  Events go  *)
(* to the notification socket of a client, where what finds no room is     *)
(* dropped (media_server_notify sends with MSG_DONTWAIT).                  *)
(* The actions of controllers are parts of the actions of SessionCache and *)
(* UvSessionCache, the two clients of this interface.                      *)
(***************************************************************************)
EXTENDS MediaMetadata, SequencesExt

CONSTANTS Controllees, Controllers,
          NotifyQueue,  \* events a notification socket holds unread
          MaxAsked      \* control messages a controllee holds unanswered

ASSUME SessionAssumption ==
    NotifyQueue \in Nat \ {0} /\ MaxAsked \in Nat \ {0} /\ NULL \notin Controllees

VARIABLES
    controllees,  \* the list, most active first
    meta,         \* controllee->data
    given,        \* what the controllee itself has said, text by text
    controllers,  \* opened controllers
    event,        \* those with controller->event
    events,       \* unread events of a controller
    asked,        \* control messages a controllee has not answered
    lost          \* controllers an event was dropped for

session_vars == <<controllees, meta, given, controllers, event, events, asked, lost>>

MEDIA_EVENT_CHANGED == 101
MEDIA_EVENT_UPDATED == 102
MEDIA_EVENT_RESULT == 1  \* any MEDIA_EVENT_* a controllee answers

Events == {MEDIA_EVENT_CHANGED, MEDIA_EVENT_UPDATED, MEDIA_EVENT_RESULT}

\* TAILQ_FIRST(&priv->controllees)
First(list) == IF list = <<>> THEN NULL ELSE list[1]

TAILQ_REMOVE(list, e) == RemoveAt(list, CHOOSE j \in DOMAIN list : list[j] = e)

Registered(e) == e \in ToSet(controllees)

SessionInit ==
    /\ controllees = <<>> /\ controllers = {} /\ event = {} /\ lost = {}
    /\ meta = [e \in Controllees |-> media_metadata_init]
    /\ given = [e \in Controllees |-> media_metadata_init]
    /\ events = [c \in Controllers |-> <<>>]
    /\ asked = [e \in Controllees |-> 0]

-----------------------------------------------------------------------------

\* media_session_controllee_notify over the list as the handler left it:
\* only the most active controllee reaches the controllers.
media_session_controllee_notify(list, e, ev) ==
    LET reached == IF e = First(list) THEN event ELSE {}
    IN  /\ events' = [c \in Controllers |->
                        IF c \in reached /\ Len(events[c]) < NotifyQueue
                        THEN Append(events[c], ev) ELSE events[c]]
        /\ lost' = lost \cup {c \in reached : Len(events[c]) = NotifyQueue}

media_session_controllee_register(e) ==
    /\ ~ Registered(e)
    /\ controllees' = Append(controllees, e)
    /\ media_session_controllee_notify(controllees', e, MEDIA_EVENT_CHANGED)
    /\ UNCHANGED <<meta, given, controllers, event, asked>>

\* The latest playing controllee becomes the most active one.  Whether it
\* plays is read from its merged metadata, so any update of a playing
\* controllee counts.
media_session_controllee_update(e, diff) ==
    LET data == media_metadata_update(meta[e],
                    media_metadata_unserialize(media_metadata_serialize(diff)))
        plays == data.state # NULL /\ data.state > 0
    IN  /\ Registered(e)
        /\ meta' = [meta EXCEPT ![e] = data]
        /\ given' = [given EXCEPT ![e] = media_metadata_update(@, diff)]
        /\ IF e = First(controllees)
           THEN /\ media_session_controllee_notify(controllees, e, MEDIA_EVENT_UPDATED)
                /\ UNCHANGED controllees
           ELSE IF plays
           THEN /\ controllees' = <<e>> \o TAILQ_REMOVE(controllees, e)
                /\ media_session_controllee_notify(controllees', e, MEDIA_EVENT_CHANGED)
           ELSE UNCHANGED <<controllees, events, lost>>
        /\ UNCHANGED <<controllers, event, asked>>

\* A mutant: only a controllee that leaves others behind is announced.
UnregisterUnlessLast(e) ==
    /\ Registered(e)
    /\ controllees' = TAILQ_REMOVE(controllees, e)
    /\ asked' = [asked EXCEPT ![e] = 0]
    /\ IF e = First(controllees) /\ controllees' # <<>>
       THEN media_session_controllee_notify(controllees', First(controllees'),
                                            MEDIA_EVENT_CHANGED)
       ELSE UNCHANGED <<events, lost>>
    /\ meta' = [meta EXCEPT ![e] = media_metadata_init]
    /\ given' = [given EXCEPT ![e] = media_metadata_init]
    /\ UNCHANGED <<controllers, event>>

\* With media_stub_notify_finalize: what was on its socket is gone.  When the
\* list becomes empty, both sides of the test in notify are the null pointer.
media_session_controllee_unregister(e) ==
    /\ Registered(e)
    /\ controllees' = TAILQ_REMOVE(controllees, e)
    /\ asked' = [asked EXCEPT ![e] = 0]
    /\ IF e = First(controllees)
       THEN media_session_controllee_notify(controllees', First(controllees'),
                                            MEDIA_EVENT_CHANGED)
       ELSE UNCHANGED <<events, lost>>
    /\ meta' = [meta EXCEPT ![e] = media_metadata_init]
    /\ given' = [given EXCEPT ![e] = media_metadata_init]
    /\ UNCHANGED <<controllers, event>>

\* "event": a controllee answers a control message it was sent.
ControlleeResult(e) ==
    /\ Registered(e) /\ asked[e] > 0
    /\ asked' = [asked EXCEPT ![e] = @ - 1]
    /\ media_session_controllee_notify(controllees, e, MEDIA_EVENT_RESULT)
    /\ UNCHANGED <<controllees, meta, given, controllers, event>>

ControlleeStep ==
    \E e \in Controllees :
        \/ media_session_controllee_register(e)
        \/ \E diff \in Metadata : media_session_controllee_update(e, diff)
        \/ media_session_controllee_unregister(e)
        \/ ControlleeResult(e)

-----------------------------------------------------------------------------

\* "open", "set_event" and "close" of media_session_handler.
media_session_controller_open(c) ==
    /\ c \notin controllers
    /\ controllers' = controllers \cup {c}
    /\ UNCHANGED <<controllees, meta, given, event, events, asked, lost>>

SetEvent(c) ==
    /\ event' = event \cup {c}
    /\ UNCHANGED <<controllees, meta, given, controllers, events, asked, lost>>

media_session_controller_close(c) ==
    /\ controllers' = controllers \ {c}
    /\ event' = event \ {c} /\ lost' = lost \ {c}
    /\ events' = [events EXCEPT ![c] = <<>>]
    /\ UNCHANGED <<controllees, meta, given, asked>>

\* media_session_controller_transfer of a control message.
Control(c) ==
    /\ c \in controllers /\ controllees # <<>>
    /\ asked' = [asked EXCEPT ![First(controllees)] = IF @ < MaxAsked THEN @ + 1 ELSE @]
    /\ UNCHANGED <<controllees, meta, given, controllers, event, events, lost>>

\* media_session_controller_transfer of "query".
QueryAnswer ==
    IF controllees = <<>> THEN [ret |-> ENOENT, res |-> NULL]
    ELSE [ret |-> 0, res |-> media_metadata_serialize(meta[First(controllees)])]

-----------------------------------------------------------------------------

SessionTypeOK ==
    /\ controllees \in Seq(Controllees) /\ controllers \subseteq Controllers
    /\ IsInjective(controllees)
    /\ meta \in [Controllees -> Metadata] /\ given \in [Controllees -> Metadata]
    /\ event \subseteq controllers /\ lost \subseteq event
    /\ events \in [Controllers -> Seq(Events)]
    /\ \A c \in Controllers : Len(events[c]) <= NotifyQueue
    /\ asked \in [Controllees -> 0 .. MaxAsked]

(* What the session keeps for a controllee is what it has given ("Update   *)
(* metadata to session.", include/media_session.h), the title up to its    *)
(* first white space.                                                      *)
KeepsGiven ==
    \A e \in ToSet(controllees) :
        /\ meta[e].state = given[e].state
        /\ meta[e].title = IF given[e].title = NULL THEN NULL ELSE <<given[e].title[1]>>
=============================================================================

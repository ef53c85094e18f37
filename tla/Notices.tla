------------------------------- MODULE Notices -------------------------------
(***************************************************************************)
(* Telling people of an alarm (internal/alarms/dispatch.go, engine.go,     *)
(* internal/notify): a goroutine for each event, which goes through the    *)
(* channels of the rule within two minutes.                                *)
(*                                                                         *)
(* Channels are numbered in the order of the rule.  Time is counted in     *)
(* halves of a minute: a webhook, Slack or Teams takes one at most (their  *)
(* HTTP client gives up after 25 s), a mail two - or any time at all when  *)
(* the settings say STARTTLS, which heeds no deadline.                     *)
(***************************************************************************)
EXTENDS Shared, Naturals, FiniteSetsExt

CONSTANTS
  ChannelCount, \* channels of the rule
  MailChannel,  \* those of kind email
  TimeLimit     \* the two minutes

ASSUME NoticeAssumption ==
  ChannelCount \in Nat /\ TimeLimit \in Nat \ {0} /\ MailChannel \subseteq 1..ChannelCount

VARIABLES
  alarm,    \* the alarm: None, "opened" or "cleared"
  dispatch, \* the goroutine of each event: channels to go and time left, or None
  audited,  \* <<event, channel>> with an audit row: notified, or notify_failed
  owed      \* history: <<event, channel>> of which an audit row is due

noticeVars == <<alarm, dispatch, audited, owed>>

-----------------------------------------------------------------------------
Channels == 1..ChannelCount
Event == {"opened", "cleared"}
Dispatch == [stage : {"load", "send", "late"}, todo : SUBSET Channels, left : 0..TimeLimit]

NoticesTypeOK ==
  /\ alarm \in Event \cup {None}
  /\ dispatch \in [Event -> Dispatch \cup {None}]
  /\ audited \cup owed \subseteq Event \X Channels

-----------------------------------------------------------------------------
(* The engine. *)

\* go e.dispatchAlarm: a clear does not wait for the notices of the opening.
Announce(e) ==
  dispatch' = [dispatch EXCEPT ![e] = [stage |-> "load", todo |-> {}, left |-> TimeLimit]]

OpenAlarm ==
  /\ alarm = None /\ alarm' = "opened" /\ Announce("opened")
  /\ UNCHANGED <<audited, owed>>

ClearAlarm ==
  /\ alarm = "opened" /\ alarm' = "cleared" /\ Announce("cleared")
  /\ UNCHANGED <<audited, owed>>

\* Nothing of a dispatch is kept anywhere.
ApiRestarts ==
  /\ Fault
  /\ dispatch' = [e \in Event |-> None]
  /\ UNCHANGED <<alarm, audited, owed>>

-----------------------------------------------------------------------------
(* Fire. *)

Slowest(c) == IF c \in MailChannel THEN 2 ELSE 1

\* The channels in the rule's order that the two minutes reach at the slowest.
InTime(c) == MapThenSumSet(Slowest, 1..c) < TimeLimit

\* The channels that are active now, in the order of the rule.  When they cannot be read
\* there is no notice, and no audit row either.
LoadChannels(e) ==
  /\ dispatch[e] # None /\ dispatch[e].stage = "load"
  /\ \/ \E active \in SUBSET Channels :
          /\ dispatch' = [dispatch EXCEPT ![e].stage = "send", ![e].todo = active]
          /\ owed' = IF calm THEN owed \cup {<<e, c>> : c \in {d \in active : InTime(d)}}
                     ELSE owed
     \/ Fault /\ dispatch' = [dispatch EXCEPT ![e] = None] /\ UNCHANGED owed
  /\ UNCHANGED <<alarm, audited>>

\* The channel whose turn it is.
First(e, c) == c \in dispatch[e].todo /\ \A d \in dispatch[e].todo : c <= d
NextChannel(e, c) == dispatch[e] # None /\ dispatch[e].stage = "send" /\ First(e, c)

\* The first failure ends the dispatch.
Remaining_StopsAtFailure(e, c, sent) == IF sent THEN dispatch[e].todo \ {c} ELSE {}

\* A failure is audited and the next channel has its turn.
Remaining(e, c, sent) == dispatch[e].todo \ {c}

\* The audit row is written with what is left of the same two minutes: a notice that
\* used them up leaves none, whatever became of it.
SendNotice(e) ==
  /\ \E c \in Channels, sent \in BOOLEAN, took \in 0..2 :
       LET left == IF took > dispatch[e].left THEN 0 ELSE dispatch[e].left - took
       IN  /\ NextChannel(e, c)
           /\ took <= Slowest(c)
           /\ sent => dispatch[e].left > 0
           /\ \/ audited' = IF left > 0 THEN audited \cup {<<e, c>>} ELSE audited
              \/ Fault /\ UNCHANGED audited
           /\ dispatch' = [dispatch EXCEPT ![e].todo = Remaining(e, c, sent), ![e].left = left]
  /\ UNCHANGED <<alarm, owed>>

\* With STARTTLS the dial and the dialogue heed no deadline: a mail may outlast its
\* minute, and the two minutes of all.  The others wait, and nothing is due of them.
MailIsLate(e) ==
  /\ \E c \in MailChannel : NextChannel(e, c)
  /\ dispatch' = [dispatch EXCEPT ![e].stage = "late"]
  /\ owed' = owed \ {<<e, c>> : c \in dispatch[e].todo}
  /\ UNCHANGED <<alarm, audited>>

\* It may come back, sooner or later, sent or failed.  With the two minutes over there is
\* no row of it either, nor any notice or row of those after it.
LateMailReturns(e) ==
  /\ dispatch[e] # None /\ dispatch[e].stage = "late"
  /\ \E c \in MailChannel, sent \in BOOLEAN, left \in 0..dispatch[e].left :
       /\ First(e, c)
       /\ left = 0 \/ left + Slowest(c) <= dispatch[e].left
       /\ \/ audited' = IF left > 0 THEN audited \cup {<<e, c>>} ELSE audited
          \/ Fault /\ UNCHANGED audited
       /\ dispatch' = [dispatch EXCEPT
            ![e] = [stage |-> "send", todo |-> Remaining(e, c, sent), left |-> left]]
  /\ UNCHANGED <<alarm, owed>>

DispatchEnds(e) ==
  /\ dispatch[e] # None /\ dispatch[e].stage = "send" /\ dispatch[e].todo = {}
  /\ dispatch' = [dispatch EXCEPT ![e] = None]
  /\ UNCHANGED <<alarm, audited, owed>>

-----------------------------------------------------------------------------
NoticesInit ==
  /\ alarm = None
  /\ dispatch = [e \in Event |-> None] /\ audited = {} /\ owed = {}

DispatchStep(e) == LoadChannels(e) \/ SendNotice(e) \/ MailIsLate(e) \/ DispatchEnds(e)

NoticesNext ==
  \/ OpenAlarm \/ ClearAlarm \/ ApiRestarts
  \/ \E e \in Event : DispatchStep(e) \/ LateMailReturns(e)

\* A goroutine goes on, except that nobody knows of a late mail.
NoticesFairness == \A e \in Event : WF_noticeVars(focus = "notices" /\ DispatchStep(e))

-----------------------------------------------------------------------------
(* Properties. *)

\* A channel early enough in the rule is told, or the audit says that it was not, however
\* slow and broken the channels before it are (dispatch.go:79) - unless one of these, or
\* itself, is a mail over STARTTLS that outlasts its minute.
EarlyChannelsAreHeardOf == <>[](owed \subseteq audited)
=============================================================================

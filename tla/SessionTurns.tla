---------------------------- MODULE SessionTurns ----------------------------
(***************************************************************************)
(* The turns of a session and the messages that wait for them: the queues  *)
(* of the agent (packages/agent/src/agent.ts), the loop that polls them    *)
(* (agent-loop.ts), and the session that starts runs, counts them, aborts  *)
(* them and makes up for messages no run has polled                        *)
(* (session/agent-session.ts).                                             *)
(*                                                                         *)
(* A run of the agent belongs to a prompt of the user, to a drain, which   *)
(* resumes the agent for queued messages, or to a wake, which an incoming  *)
(* IRC record starts.  All of it runs on one event loop, an action is what *)
(* happens between two awaits.                                             *)
(***************************************************************************)
EXTENDS Naturals, Sequences, FiniteSets

CONSTANTS
    Prompts,     \* the prompts of the user
    Drains,      \* scheduled drains that can be under way together
    Wakes,       \* wake turns that can be under way together
    None,
    OneAtATime,  \* which queues are in the mode one-at-a-time
    MaxMessages, \* bound: messages of each kind
    MaxAborts,   \* bound: aborts, which come one after the other
    Fresh        \* the conversation starts without messages

Actors == Prompts \cup Drains \cup Wakes
Kinds  == {"steer", "followUp", "irc"}

ASSUME TurnsAssumption ==
    /\ Prompts \cap (Drains \cup Wakes) = {} /\ Drains \cap Wakes = {}
    /\ None \notin Actors
    /\ OneAtATime \subseteq {"steer", "followUp"}
    /\ MaxAborts \in Nat
    /\ MaxMessages \in [Kinds -> Nat]
    /\ Fresh \in BOOLEAN

VARIABLES
    steering,   \* #steeringQueue
    followUps,  \* #followUpQueue
    records,    \* #pendingIrcInterrupts and #pendingIrcAsides
    parked,     \* the follow-ups a wake has set aside
    sent,       \* how many messages of a kind have been queued
    gone,       \* messages in the conversation, or back in the user's editor
    tail,       \* the role of the last message of the conversation
    run,        \* the agent's run: "off", or where its loop is
    owner,      \* whose run it is
    aborted,    \* the run's signal
    skip,       \* skipInitialSteeringPoll
    pending,    \* pendingMessages of the loop
    newSteers,      \* steers that the next call of the model answers
    phase,      \* what an actor does, see Phases
    stale,      \* actors an abort has overtaken
    count,      \* #promptInFlightCount
    abort,      \* abort(): "no", or what it waits for, or "settling"
    aborts,     \* how many there have been
    suppressed  \* #advisorAutoResumeSuppressed

queues == <<steering, followUps, records>>
talk   == <<gone, tail>>
loop   == <<run, owner, aborted, skip, pending, newSteers>>
actors == <<phase, stale, count>>
stops  == <<abort, aborts, suppressed>>
vars   == <<queues, parked, sent, talk, loop, actors, stops>>

Messages == UNION {{k} \X (1 .. MaxMessages[k]) : k \in Kinds}

Phases == {"off", "asked", "setup", "busy", "run", "after", "done"}

TypeOK ==
    /\ steering \in Seq(Messages) /\ followUps \in Seq(Messages)
    /\ records \in Seq(Messages) /\ pending \in Seq(Messages)
    /\ parked \in [Wakes -> Seq(Messages)]
    /\ sent \in [Kinds -> Nat]
    /\ gone \subseteq Messages
    /\ tail \in {"none", "assistant", "toolResult", "other"}
    /\ run \in {"off", "start", "turn", "call", "work", "stop", "yield", "ending"}
    /\ owner \in Actors \cup {None}
    /\ \A a \in Actors : phase[a] = "run" <=> owner = a
    /\ run = "off" <=> owner = None
    /\ run = "off" => pending = <<>> /\ ~aborted
    /\ aborted \in BOOLEAN /\ skip \in BOOLEAN /\ suppressed \in BOOLEAN
    /\ newSteers \in Nat /\ count \in Nat /\ aborts \in Nat
    /\ phase \in [Actors -> Phases]
    /\ stale \subseteq Actors
    /\ abort \in {"no", "drains", "run", "settling"}

-----------------------------------------------------------------------------
(* The queues                                                              *)

(* #dequeueSteeringMessages and #dequeueFollowUpMessages: what is taken    *)
(* from a queue, and what is left of it.                                   *)
Batch(k, q) == IF k \in OneAtATime /\ q # <<>> THEN <<Head(q)>> ELSE q
Rest(k, q) == IF k \in OneAtATime /\ q # <<>> THEN Tail(q) ELSE <<>>

(* Variant: the poll has taken the message when it looks at the signal.    *)
LeftAborted(k, q) == Rest(k, q)

(* A poll of a run that is aborted takes nothing.                          *)
Polled(k, q) == IF aborted THEN <<>> ELSE Batch(k, q)
Left(k, q) == IF aborted THEN q ELSE Rest(k, q)

MessagesIn(q) == {q[i] : i \in DOMAIN q}

SteersIn(q) == Cardinality({i \in DOMAIN q : q[i][1] = "steer"})

NextMessage(k) == <<k, sent[k] + 1>>

Count(k) ==
    /\ sent[k] < MaxMessages[k]
    /\ sent' = [sent EXCEPT ![k] = @ + 1]

-----------------------------------------------------------------------------
(* Runs of the agent                                                       *)

(* The session's isStreaming, when c prompts are in flight.                *)
Streaming(c) == run # "off" \/ c > 0

Say(messages) ==
    /\ gone' = gone \cup MessagesIn(messages)
    /\ tail' = IF messages = <<>> THEN tail ELSE "other"

(* #runLoop: the messages become part of the conversation at once.         *)
StartRun(a, messages, skipPoll) ==
    /\ run' = "start"
    /\ owner' = a
    /\ aborted' = FALSE
    /\ skip' = skipPoll
    /\ pending' = <<>>
    /\ newSteers' = SteersIn(messages)
    /\ Say(messages)

(* Variant: the first poll forgets that the run has begun with a steer.    *)
InitialPollAlways ==
    /\ run = "start"
    /\ run' = "turn"
    /\ pending' = Polled("steer", steering)
    /\ steering' = Left("steer", steering)
    /\ skip' = FALSE
    /\ UNCHANGED <<followUps, records, parked, sent, talk, owner, aborted,
                   newSteers, actors, stops>>

InitialPoll ==
    /\ run = "start"
    /\ run' = "turn"
    /\ IF skip
       THEN UNCHANGED <<pending, steering>>
       ELSE /\ pending' = Polled("steer", steering)
            /\ steering' = Left("steer", steering)
    /\ skip' = (skip /\ aborted)
    /\ UNCHANGED <<followUps, records, parked, sent, talk, owner, aborted,
                   newSteers, actors, stops>>

(* The pending messages precede the next call of the model.                *)
Inject ==
    /\ run = "turn"
    /\ run' = "call"
    /\ Say(pending)
    /\ newSteers' = newSteers + SteersIn(pending)
    /\ pending' = <<>>
    /\ UNCHANGED <<queues, parked, sent, owner, aborted, skip, actors, stops>>

(* The model answers, with tool calls that have been run or without.       *)
Answer(tools) ==
    /\ run = "call"
    /\ ~aborted
    /\ run' = IF tools THEN "work" ELSE "stop"
    /\ tail' = IF tools THEN "toolResult" ELSE "assistant"
    /\ newSteers' = 0
    /\ UNCHANGED <<queues, parked, sent, gone, owner, aborted, skip, pending,
                   actors, stops>>

(* The call fails or is aborted, its tool calls get placeholder results.   *)
CallFails(t) ==
    /\ run = "call"
    /\ run' = "ending"
    /\ tail' = t
    /\ newSteers' = 0
    /\ UNCHANGED <<queues, parked, sent, gone, owner, aborted, skip, pending,
                   actors, stops>>

(* The end of a turn: steering is polled, and between tool calls the       *)
(* asides.  A turn without tool calls that finds none is the last.         *)
Boundary ==
    /\ run \in {"work", "stop"}
    /\ steering' = Left("steer", steering)
    /\ IF run = "work"
       THEN /\ pending' = Polled("steer", steering) \o Polled("irc", records)
            /\ records' = Left("irc", records)
       ELSE /\ pending' = Polled("steer", steering)
            /\ UNCHANGED records
    /\ run' = IF run = "work" \/ pending' # <<>> THEN "turn" ELSE "yield"
    /\ UNCHANGED <<followUps, parked, sent, talk, owner, aborted, skip,
                   newSteers, actors, stops>>

(* The agent would stop: the last poll takes steering that came late,      *)
(* asides and follow-ups.                                                  *)
LastPoll ==
    /\ run = "yield"
    /\ steering' = Left("steer", steering)
    /\ records' = Left("irc", records)
    /\ followUps' = Left("followUp", followUps)
    /\ pending' = Polled("steer", steering) \o Polled("irc", records)
                     \o Polled("followUp", followUps)
    /\ run' = IF pending' = <<>> THEN "ending" ELSE "turn"
    /\ UNCHANGED <<parked, sent, talk, owner, aborted, skip, newSteers,
                   actors, stops>>

(* Variant: the run leaves its abort controller behind.                    *)
RunEndsAborted ==
    /\ run = "ending"
    /\ run' = "off"
    /\ owner' = None
    /\ phase' = [phase EXCEPT ![owner] = "after"]
    /\ abort' = IF abort = "run" THEN "settling" ELSE abort
    /\ UNCHANGED <<queues, parked, sent, talk, aborted, skip, pending,
                   newSteers, stale, count, aborts, suppressed>>

(* The consumer of the loop's events has seen the last one.                *)
RunEnds ==
    /\ run = "ending"
    /\ run' = "off"
    /\ owner' = None
    /\ aborted' = FALSE
    /\ phase' = [phase EXCEPT ![owner] = "after"]
    /\ abort' = IF abort = "run" THEN "settling" ELSE abort
    /\ UNCHANGED <<queues, parked, sent, talk, skip, pending, newSteers,
                   stale, count, aborts, suppressed>>

-----------------------------------------------------------------------------
(* The session starts runs for messages nobody polls.                      *)

(* #canAutoContinueForFollowUp.                                            *)
CanAuto(c) ==
    /\ ~Streaming(c)
    /\ \/ steering # <<>>
       \/ ~suppressed /\ tail \in {"assistant", "toolResult"}

(* There are enough of them in the instances: TLC stops when none is free. *)
FreeOf(kind, ph) == CHOOSE a \in kind : ph[a] = "off"

(* #scheduleAgentContinue runs up to its first await.                      *)
ScheduleDrain(c, ph) ==
    LET t == FreeOf(Drains, ph)
    IN  /\ phase' = [ph EXCEPT ![t] = "setup"]
        /\ count' = c + 1

(* A wake sets aside follow-ups that an interrupt holds back.              *)
WakeForIrc(c, ph, later, held, messages) ==
    LET w == FreeOf(Wakes, ph)
    IN  /\ phase' = [ph EXCEPT ![w] = "run"]
        /\ count' = c + 1
        /\ IF steering = <<>> /\ ~CanAuto(c)
           THEN /\ parked' = [held EXCEPT ![w] = later]
                /\ followUps' = <<>>
           ELSE /\ parked' = held
                /\ followUps' = later
        /\ StartRun(w, messages, FALSE)

(* #drainStrandedQueuedMessages, with the count, the phases, the           *)
(* follow-ups and the parked messages its caller leaves.                   *)
DrainStranded(c, ph, later, held) ==
    LET resumes == CanAuto(c) /\ (steering # <<>> \/ later # <<>>)
        wakes   == ~Streaming(c) /\ records # <<>>
    IN  \/ /\ resumes
           /\ ScheduleDrain(c, ph)
           /\ followUps' = later /\ parked' = held
           /\ UNCHANGED <<records, loop, talk>>
        \/ /\ ~resumes /\ wakes
           /\ WakeForIrc(c, ph, later, held, records)
           /\ records' = <<>>
        \/ /\ ~resumes /\ ~wakes
           /\ count' = c /\ phase' = ph
           /\ followUps' = later /\ parked' = held
           /\ UNCHANGED <<records, loop, talk>>

(* Variant: nobody looks after the queues.                                 *)
EndInFlightOnly(a, later, held) ==
    /\ count' = IF count = 0 THEN 0 ELSE count - 1
    /\ phase' = [phase EXCEPT ![a] = IF a \in Prompts THEN "done" ELSE "off"]
    /\ followUps' = later /\ parked' = held
    /\ stale' = stale \ {a}
    /\ UNCHANGED <<steering, records, sent, talk, loop, stops>>

EndInFlight(a, later, held) ==
    LET c  == IF count = 0 THEN 0 ELSE count - 1
        ph == [phase EXCEPT ![a] = IF a \in Prompts THEN "done" ELSE "off"]
    IN  /\ IF c = 0 /\ abort = "no"
           THEN DrainStranded(c, ph, later, held)
           ELSE /\ count' = c /\ phase' = ph
                /\ followUps' = later /\ parked' = held
                /\ UNCHANGED <<records, loop, talk>>
        /\ stale' = stale \ {a}
        /\ UNCHANGED <<steering, sent, stops>>

(* agent.continue(): after an answer it starts with queued messages, and   *)
(* the first poll is skipped when they are steers.                         *)
DrainContinues(t) ==
    /\ phase[t] = "setup"
    /\ t \notin stale
    /\ run = "off"
    /\ \/ /\ tail = "assistant" /\ steering # <<>>
          /\ StartRun(t, Batch("steer", steering), TRUE)
          /\ steering' = Rest("steer", steering)
          /\ UNCHANGED followUps
       \/ /\ tail = "assistant" /\ steering = <<>> /\ followUps # <<>>
          /\ StartRun(t, Batch("followUp", followUps), FALSE)
          /\ followUps' = Rest("followUp", followUps)
          /\ UNCHANGED steering
       \/ /\ tail \in {"toolResult", "other"}
          /\ StartRun(t, <<>>, FALSE)
          /\ UNCHANGED <<steering, followUps>>
    /\ phase' = [phase EXCEPT ![t] = "run"]
    /\ UNCHANGED <<records, parked, sent, stale, count, stops>>

(* The drain was aborted, or agent.continue() throws: a run is under way,  *)
(* there is no message at all, or none is queued after an answer.          *)
DrainGivesUp(t) ==
    /\ phase[t] = "setup"
    /\ \/ t \in stale
       \/ run # "off"
       \/ tail = "none"
       \/ tail = "assistant" /\ steering = <<>> /\ followUps = <<>>
    /\ EndInFlight(t, followUps, parked)

DrainEnds(t) ==
    /\ phase[t] = "after"
    /\ EndInFlight(t, followUps, parked)

(* The messages a wake has set aside go back in front.                     *)
WakeEnds(w) ==
    /\ phase[w] = "after"
    /\ EndInFlight(w, parked[w] \o followUps, [parked EXCEPT ![w] = <<>>])

-----------------------------------------------------------------------------
(* Prompts                                                                 *)

(* prompt() finds the session idle and prepares the images.                *)
AskPrompt(p) ==
    /\ phase[p] = "off"
    /\ ~Streaming(count)
    /\ phase' = [phase EXCEPT ![p] = "asked"]
    /\ suppressed' = FALSE
    /\ UNCHANGED <<queues, parked, sent, talk, loop, stale, count, abort,
                   aborts>>

(* #promptWithMessage: IRC records that wait join the conversation.        *)
BeginPrompt(p) ==
    /\ phase[p] = "asked"
    /\ phase' = [phase EXCEPT ![p] = "setup"]
    /\ count' = count + 1
    /\ Say(records)
    /\ records' = <<>>
    /\ UNCHANGED <<steering, followUps, parked, sent, loop, stale, stops>>

(* #promptAgentWithIdleRetry: the agent is prompted again once it is idle, *)
(* only the setup looks at the generation.                                 *)
PromptAgent(p) ==
    /\ \/ phase[p] = "setup" /\ p \notin stale
       \/ phase[p] = "busy" /\ run = "off"
    /\ IF run = "off"
       THEN /\ phase' = [phase EXCEPT ![p] = "run"]
            /\ StartRun(p, <<>>, FALSE)
       ELSE /\ phase' = [phase EXCEPT ![p] = "busy"]
            /\ UNCHANGED <<talk, loop>>
    /\ UNCHANGED <<queues, parked, sent, stale, count, stops>>

(* The setup fails or was overtaken by an abort, or waiting for the agent  *)
(* takes too long.                                                         *)
PromptGivesUp(p) ==
    /\ phase[p] \in {"setup", "busy"}
    /\ EndInFlight(p, followUps, parked)

(* #waitForPostPromptRecovery.                                             *)
PromptEnds(p) ==
    /\ phase[p] = "after"
    /\ \/ p \in stale
       \/ run = "off" /\ \A t \in Drains : phase[t] = "off"
    /\ EndInFlight(p, followUps, parked)

-----------------------------------------------------------------------------
(* Messages come in.                                                       *)

(* #queueUserMessage of a steer, and its #scheduleQueuedMessageDrain: the  *)
(* steer itself makes an idle session resumable.                           *)
Steer ==
    /\ Count("steer")
    /\ steering' = Append(steering, NextMessage("steer"))
    /\ suppressed' = FALSE
    /\ IF Streaming(count)
       THEN UNCHANGED <<phase, count>>
       ELSE ScheduleDrain(count, phase)
    /\ UNCHANGED <<followUps, records, parked, talk, loop, stale, abort,
                   aborts>>

(* deliverIrcMessage from the agent's parent while the session streams.    *)
SteerOfParent ==
    /\ Streaming(count)
    /\ Count("steer")
    /\ steering' = Append(steering, NextMessage("steer"))
    /\ UNCHANGED <<followUps, records, parked, talk, loop, actors, stops>>

FollowUp ==
    /\ Count("followUp")
    /\ followUps' = Append(followUps, NextMessage("followUp"))
    /\ suppressed' = FALSE
    /\ IF \/ Streaming(count)
          \/ steering = <<>> /\ tail \in {"none", "other"}
       THEN UNCHANGED <<phase, count>>
       ELSE ScheduleDrain(count, phase)
    /\ UNCHANGED <<steering, records, parked, talk, loop, stale, abort,
                   aborts>>

(* deliverIrcMessage from anyone else.                                     *)
Irc ==
    /\ Count("irc")
    /\ \/ /\ Streaming(count)
          /\ records' = Append(records, NextMessage("irc"))
          /\ UNCHANGED <<followUps, parked, talk, loop, phase, count>>
       \/ /\ ~Streaming(count)
          /\ WakeForIrc(count, phase, followUps, parked, <<NextMessage("irc")>>)
          /\ UNCHANGED records
    /\ UNCHANGED <<steering, stale, stops>>

(* clearQueue: the user takes queued messages back into the editor.        *)
TakeBack ==
    /\ steering \o followUps # <<>>
    /\ gone' = gone \cup MessagesIn(steering \o followUps)
    /\ steering' = <<>> /\ followUps' = <<>>
    /\ UNCHANGED <<records, parked, sent, tail, loop, actors, stops>>

(* popLastQueuedMessage.                                                   *)
TakeLastBack ==
    LET q == IF steering # <<>> THEN steering ELSE followUps
    IN  /\ q # <<>>
        /\ gone' = gone \cup {q[Len(q)]}
        /\ IF steering # <<>>
           THEN /\ steering' = SubSeq(q, 1, Len(q) - 1)
                /\ UNCHANGED followUps
           ELSE /\ followUps' = SubSeq(q, 1, Len(q) - 1)
                /\ UNCHANGED steering
        /\ UNCHANGED <<records, parked, sent, tail, loop, actors, stops>>

(* A shell or Python command of the user leaves a record in an idle        *)
(* session's conversation.                                                 *)
Remark ==
    /\ ~Streaming(count)
    /\ tail' = "other"
    /\ UNCHANGED <<queues, parked, sent, gone, loop, actors, stops>>

-----------------------------------------------------------------------------
(* Aborts                                                                  *)

(* abort() of the user or of the program: a new generation, the drains'    *)
(* signal and the run's.                                                   *)
AbortBegins(user) ==
    /\ abort = "no"
    /\ aborts < MaxAborts
    /\ abort' = "drains"
    /\ aborts' = aborts + 1
    /\ suppressed' = (suppressed \/ user)
    /\ stale' = stale \cup {a \in Prompts \cup Drains :
                                phase[a] \in {"setup", "busy", "run", "after"}}
    /\ aborted' = (run # "off")
    /\ UNCHANGED <<queues, parked, sent, talk, run, owner, skip, pending,
                   newSteers, phase, count>>

(* It has waited for the drains, and waits for the run there is then.      *)
AbortSettles ==
    /\ abort = "drains"
    /\ stale \cap Drains = {}
    /\ abort' = IF run = "off" THEN "settling" ELSE "run"
    /\ UNCHANGED <<queues, parked, sent, talk, loop, actors, aborts, suppressed>>

(* #resetInFlight, and the drain of what the abort has held back.          *)
AbortEnds ==
    /\ abort = "settling"
    /\ abort' = "no"
    /\ DrainStranded(0, phase, followUps, parked)
    /\ UNCHANGED <<steering, sent, stale, aborts, suppressed>>

-----------------------------------------------------------------------------
Init ==
    /\ steering = <<>> /\ followUps = <<>> /\ records = <<>>
    /\ parked = [w \in Wakes |-> <<>>]
    /\ sent = [k \in Kinds |-> 0] /\ gone = {}
    /\ tail = IF Fresh THEN "none" ELSE "assistant"
    /\ run = "off" /\ owner = None /\ aborted = FALSE /\ skip = FALSE
    /\ pending = <<>> /\ newSteers = 0
    /\ phase = [a \in Actors |-> "off"] /\ stale = {} /\ count = 0
    /\ abort = "no" /\ aborts = 0 /\ suppressed = FALSE

LoopSteps ==
    \/ InitialPoll \/ Inject \/ Boundary \/ LastPoll \/ RunEnds
    \/ \E tools \in BOOLEAN : Answer(tools)
    \/ \E t \in {"assistant", "toolResult"} : CallFails(t)

DrainSteps(t) == DrainContinues(t) \/ DrainGivesUp(t) \/ DrainEnds(t)
PromptSteps(p) ==
    BeginPrompt(p) \/ PromptAgent(p) \/ PromptGivesUp(p) \/ PromptEnds(p)
AbortSteps == AbortSettles \/ AbortEnds

Next ==
    \/ LoopSteps
    \/ \E t \in Drains : DrainSteps(t)
    \/ \E w \in Wakes : WakeEnds(w)
    \/ \E p \in Prompts : AskPrompt(p) \/ PromptSteps(p)
    \/ Steer \/ SteerOfParent \/ FollowUp \/ Irc
    \/ TakeBack \/ TakeLastBack \/ Remark
    \/ \E user \in BOOLEAN : AbortBegins(user)
    \/ AbortSteps

Spec == Init /\ [][Next]_vars

(* Every await of the session returns.  Nothing is assumed of the user, of *)
(* other agents, and of how often the model calls tools.                   *)
FairSpec ==
    /\ Spec
    /\ WF_vars(LoopSteps)
    /\ SF_vars(\E tools \in BOOLEAN : Answer(tools))
    /\ \A t \in Drains : WF_vars(DrainSteps(t))
    /\ \A w \in Wakes : WF_vars(WakeEnds(w))
    /\ \A p \in Prompts : WF_vars(PromptSteps(p))
    /\ WF_vars(AbortSteps)

-----------------------------------------------------------------------------
(* Properties                                                              *)

Occurrences(m, q) == Cardinality({i \in DOMAIN q : q[i] = m})

ParkedPlaces(m) == {w \in Wakes : m \in MessagesIn(parked[w])}

Places(m) ==
    Occurrences(m, steering \o followUps \o records \o pending)
    + Cardinality(ParkedPlaces(m))
    + Cardinality(gone \cap {m})

(* No message is lost or delivered twice: what was queued is in one queue, *)
(* with the loop or a wake, in the conversation, or back with the user,    *)
(* whatever is aborted, resumed or woken meanwhile.                        *)
InOnePlace ==
    \A k \in Kinds : \A i \in 1 .. sent[k] : Places(<<k, i>>) = 1

(* In the mode one-at-a-time the model gets to answer each steer before it *)
(* is given the next, whichever of the polls and resumptions delivers it.  *)
OneSteerPerAnswer == "steer" \in OneAtATime => newSteers <= 1

(* Whenever a steer or an IRC record waits, somebody is under way who will *)
(* poll it or make up for it when he is the last to leave, although aborts *)
(* reset the count of those who are: a prompt, drain or wake that has been *)
(* counted, or an abort.                                                   *)
UnderWay(ph) == {a \in Actors : ph[a] \in {"setup", "busy", "run", "after"}}

NoneIsStranded ==
    abort = "no" /\ UnderWay(phase) = {} => steering = <<>> /\ records = <<>>

(* A steer or an IRC record is not stranded: it gets into the conversation *)
(* or is taken back, although it may arrive after the last poll of a run,  *)
(* during an abort, or while a prompt is being set up.                     *)
EveryoneIsHeard ==
    \A m \in {n \in Messages : n[1] # "followUp"} :
        m[2] <= sent[m[1]] ~> m \in gone

=============================================================================

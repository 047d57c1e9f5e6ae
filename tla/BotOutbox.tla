------------------------------ MODULE BotOutbox ------------------------------
(***************************************************************************)
(* Notifications from the apps to the Matrix users: the hub records an      *)
(* app's event in its database and puts a file per recipient in the bot's   *)
(* outbox (services/notification_events.py); the bot, another container,    *)
(* sends the files' texts and removes them (services/matrix_bot.py).        *)
(*                                                                         *)
(* An event is one of the kinds that notify.  The name of a file is a hash  *)
(* of event and recipient, so it is the pair here, and Rank is the order    *)
(* the hashes happen to have.                                               *)
(***************************************************************************)
EXTENDS Naturals, FiniteSets

CONSTANTS Event,       \* events the apps send, again until they are answered
          Patient,     \* those of FjordParcel, which wait for a first recipient
          Recipient,   \* Matrix users
          NoEvent,     \* the recorder is idle
          Batch,       \* files the bot takes in one round
          Rank,        \* the order of the files' names
          MaxMishaps   \* bound on failures and restarts

File == Event \X Recipient

ASSUME OutboxAssumption ==
    /\ Patient \subseteq Event /\ NoEvent \notin Event
    /\ Batch \in Nat /\ MaxMishaps \in Nat
    /\ Rank \in [File -> Nat]

VARIABLES ready,      \* the phase of Matrix is "ready"
          members,    \* allowed_users
          chats,      \* users who have an encrypted room with the bot
          events,     \* rows of the hub's database, their column queued
          promised,   \* whom a queued event was put in the outbox for
          recorder,   \* the one recording that is under way, in its transaction
          spool,      \* the outbox's files
          bot,        \* where the bot's loop is
          delivered,  \* how often the server took a file's text
          mishaps     \* history: failures and restarts so far

recording  == <<events, promised, recorder>>
outside    == <<ready, members, chats>>
outboxVars == <<ready, members, chats, events, promised, recorder, spool, bot,
                delivered, mishaps>>

Recorder == [event : Event \cup {NoEvent}, to : SUBSET Recipient, todo : SUBSET Recipient]
NoRecord == [event |-> NoEvent, to |-> {}, todo |-> {}]
Bot      == [at : {"sleep", "round", "send", "sent"}, todo : SUBSET File, file : SUBSET File]
Asleep   == [at |-> "sleep", todo |-> {}, file |-> {}]

OutboxTypeOK ==
    /\ ready \in BOOLEAN /\ members \subseteq Recipient /\ chats \subseteq Recipient
    /\ events \in [Event -> {"unknown", "recorded", "queued"}]
    /\ promised \in [Event -> SUBSET Recipient]
    /\ recorder \in Recorder
    /\ spool \subseteq File
    /\ bot \in Bot
    /\ delivered \in [File -> Nat]
    /\ mishaps \in 0..MaxMishaps

OutboxInit ==
    /\ ready = FALSE /\ members = {} /\ chats = {}
    /\ events = [e \in Event |-> "unknown"]
    /\ promised = [e \in Event |-> {}]
    /\ recorder = NoRecord
    /\ spool = {}
    /\ bot = Asleep
    /\ delivered = [f \in File |-> 0]
    /\ mishaps = 0

Mishap == mishaps < MaxMishaps /\ mishaps' = mishaps + 1

-----------------------------------------------------------------------------
(* NotificationStore.record, under its lock and in one transaction *)

(* The first call, or one after a call that was not queued.  Before Matrix  *)
(* is ready the event is history only.                                      *)
Notifies(e) == events[e] # "queued" /\ ready /\ (e \in Patient => members # {})

RecordOnly(e) ==
    /\ recorder = NoRecord
    /\ events[e] = "unknown" /\ ~Notifies(e)
    /\ events' = [events EXCEPT ![e] = "recorded"]
    /\ UNCHANGED <<outside, promised, recorder, spool, bot, delivered, mishaps>>

(* Mutant: the column is not read. *)
RecordBeginsAgain(e) ==
    /\ recorder = NoRecord
    /\ ready
    /\ recorder' = [event |-> e, to |-> members, todo |-> members]
    /\ UNCHANGED <<outside, events, promised, spool, bot, delivered, mishaps>>

RecordBegins(e) ==
    /\ recorder = NoRecord
    /\ Notifies(e)
    /\ recorder' = [event |-> e, to |-> members, todo |-> members]
    /\ UNCHANGED <<outside, events, promised, spool, bot, delivered, mishaps>>

(* _save replaces a file of that name.                                      *)
RecordSaves ==
    \E r \in recorder.todo :
        /\ spool' = spool \cup {<<recorder.event, r>>}
        /\ recorder' = [recorder EXCEPT !.todo = @ \ {r}]
        /\ UNCHANGED <<outside, events, promised, bot, delivered, mishaps>>

RecordCommits ==
    /\ recorder # NoRecord /\ recorder.todo = {}
    /\ events' = [events EXCEPT ![recorder.event] = "queued"]
    /\ promised' = [promised EXCEPT ![recorder.event] = recorder.to]
    /\ recorder' = NoRecord
    /\ UNCHANGED <<outside, spool, bot, delivered, mishaps>>

(* A file or the database cannot be written, or the hub restarts: the       *)
(* transaction is rolled back, the files stay.                              *)
RecordFails ==
    /\ recorder # NoRecord
    /\ Mishap
    /\ recorder' = NoRecord
    /\ UNCHANGED <<outside, events, promised, spool, bot, delivered>>

-----------------------------------------------------------------------------
(* FjordBot.poll_outbox *)

(* sorted(queue.glob("*.json"))[:30]                                        *)
First(S) == {f \in S : Cardinality({g \in S : Rank[g] < Rank[f]}) < Batch}
Earliest(S) == {f \in S : \A g \in S : Rank[f] <= Rank[g]}

BotRound ==
    /\ bot.at = "sleep"
    /\ bot' = [Asleep EXCEPT !.at = "round", !.todo = First(spool)]
    /\ UNCHANGED <<outside, recording, spool, delivered, mishaps>>

Reachable(f) == f \in spool /\ f[2] \in members \cap chats

(* Mutant: the first file that cannot be sent ends the round. *)
BotSkipsRest ==
    \E f \in Earliest(bot.todo) :
        /\ bot.at = "round" /\ ~Reachable(f)
        /\ bot' = [bot EXCEPT !.todo = {}]
        /\ UNCHANGED <<outside, recording, spool, delivered, mishaps>>

(* A recipient without a room: the file is kept.                            *)
BotSkips ==
    \E f \in Earliest(bot.todo) :
        /\ bot.at = "round" /\ ~Reachable(f)
        /\ bot' = [bot EXCEPT !.todo = @ \ {f}]
        /\ UNCHANGED <<outside, recording, spool, delivered, mishaps>>

(* Mutant: the file is removed before its text is sent. *)
BotPicksRemoving ==
    \E f \in Earliest(bot.todo) :
        /\ bot.at = "round" /\ Reachable(f)
        /\ bot' = [at |-> "send", todo |-> bot.todo \ {f}, file |-> {f}]
        /\ spool' = spool \ {f}
        /\ UNCHANGED <<outside, recording, delivered, mishaps>>

BotPicks ==
    \E f \in Earliest(bot.todo) :
        /\ bot.at = "round" /\ Reachable(f)
        /\ bot' = [at |-> "send", todo |-> bot.todo \ {f}, file |-> {f}]
        /\ UNCHANGED <<outside, recording, spool, delivered, mishaps>>

Taken == [f \in File |-> delivered[f] + IF f \in bot.file THEN 1 ELSE 0]

BotSends ==
    /\ bot.at = "send"
    /\ delivered' = Taken
    /\ bot' = [bot EXCEPT !.at = "sent"]
    /\ UNCHANGED <<outside, recording, spool, mishaps>>

(* room_send raises or answers with an error; the server may have the text. *)
SendFails ==
    /\ bot.at = "send"
    /\ Mishap
    /\ delivered' \in {delivered, Taken}
    /\ bot' = [bot EXCEPT !.at = "round", !.file = {}]
    /\ UNCHANGED <<outside, recording, spool>>

BotUnlinks ==
    /\ bot.at = "sent"
    /\ spool' = spool \ bot.file
    /\ bot' = [bot EXCEPT !.at = "round", !.file = {}]
    /\ UNCHANGED <<outside, recording, delivered, mishaps>>

UnlinkFails ==
    /\ bot.at = "sent"
    /\ Mishap
    /\ bot' = [bot EXCEPT !.at = "round", !.file = {}]
    /\ UNCHANGED <<outside, recording, spool, delivered>>

(* The rest of the loop, and six seconds.                                   *)
BotSleeps ==
    /\ bot.at = "round" /\ bot.todo = {}
    /\ bot' = Asleep
    /\ UNCHANGED <<outside, recording, spool, delivered, mishaps>>

(* The loop raises or the container is restarted.  When the sync beside it  *)
(* raises, asyncio.gather leaves the old loop polling: with a client that a *)
(* later send opens again there may be two, which is left out.              *)
BotRestarts ==
    /\ Mishap
    /\ bot' = Asleep
    /\ UNCHANGED <<outside, recording, spool, delivered>>

-----------------------------------------------------------------------------
(* Around them *)

MatrixReady ==
    /\ ~ready /\ ready' = TRUE
    /\ UNCHANGED <<members, chats, recording, spool, bot, delivered, mishaps>>

(* MatrixHub.create_user                                                    *)
CreateUser(r) ==
    /\ ready /\ members' = members \cup {r}
    /\ UNCHANGED <<ready, chats, recording, spool, bot, delivered, mishaps>>

(* A user invites the bot to an encrypted room, or leaves it.               *)
Chat(r) ==
    /\ r \in members
    /\ chats' = IF r \in chats THEN chats \ {r} ELSE chats \cup {r}
    /\ UNCHANGED <<ready, members, recording, spool, bot, delivered, mishaps>>

BotLoops == BotRound \/ BotSkips \/ BotPicks \/ BotSends \/ BotUnlinks \/ BotSleeps

OutboxNext ==
    \/ \E e \in Event : RecordOnly(e) \/ RecordBegins(e)
    \/ RecordSaves \/ RecordCommits \/ RecordFails
    \/ BotLoops \/ SendFails \/ UnlinkFails \/ BotRestarts
    \/ MatrixReady
    \/ \E r \in Recipient : CreateUser(r) \/ Chat(r)

OutboxSpec == OutboxInit /\ [][OutboxNext]_outboxVars

(* The bot's loop goes on: it waits for nothing but the server's answers.   *)
OutboxFairSpec == OutboxSpec /\ WF_outboxVars(BotLoops)

-----------------------------------------------------------------------------
(* Properties *)

(* An event that was answered as queued is kept for each of its recipients  *)
(* until the server took it, whatever fails or restarts on either side.     *)
QueuedIsKept ==
    \A e \in Event : events[e] = "queued" =>
        \A r \in promised[e] : <<e, r>> \in spool \/ delivered[<<e, r>>] > 0

(* "Stable ID: retries and multiple workers cannot enqueue copies": each    *)
(* text beyond the first needs a failure or a restart of its own, however   *)
(* often the app sends the event and wherever the bot's loop is meanwhile.  *)
CopiesNeedMishaps == \A f \in File : delivered[f] <= 1 + mishaps

(* What was queued for a user with a chat reaches them, unless a whole round *)
(* of files with earlier names waits for users without one.                 *)
HeldBack(f) == Cardinality({g \in spool : Rank[g] < Rank[f] /\ g[2] \notin chats}) >= Batch

QueuedIsDelivered ==
    \A f \in File :
        events[f[1]] = "queued" /\ f[2] \in promised[f[1]] ~>
            delivered[f] > 0 \/ f[2] \notin chats \/ HeldBack(f)
=============================================================================

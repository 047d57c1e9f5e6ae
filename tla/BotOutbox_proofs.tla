------------------------- MODULE BotOutbox_proofs -------------------------
(***************************************************************************)
(* What holds of the outbox for any events, users, order of files, size of  *)
(* a round and number of mishaps.                                           *)
(*                                                                         *)
(* The bound on copies is not inductive: a text that is still to be sent    *)
(* counts as well.  The invariant counts the server's copies and the one    *)
(* the outbox may yet become, and asks less of an event that may still be   *)
(* recorded again.                                                          *)
(***************************************************************************)
EXTENDS BotOutbox, TLAPS

(* The bot has at most one file in its hands, and it is in the outbox.      *)
InHands ==
    /\ bot.file \subseteq spool
    /\ bot.at \in {"sleep", "round"} => bot.file = {}
    /\ bot.at = "sent" => \A f \in bot.file : delivered[f] > 0

(* What a recording has done so far.                                        *)
Saved ==
    /\ recorder # NoRecord => recorder.event \in Event /\ events[recorder.event] # "queued"
    /\ recorder # NoRecord => \A r \in recorder.to \ recorder.todo :
            <<recorder.event, r>> \in spool \/ delivered[<<recorder.event, r>>] > 0
    /\ recorder.todo \subseteq recorder.to
    /\ recorder.event = NoEvent => recorder = NoRecord

(* The text in the outbox becomes another copy, unless it was just sent.    *)
Pending(f) == f \in spool /\ ~(bot.at = "sent" /\ f \in bot.file)
Copies(f) == delivered[f] + IF Pending(f) THEN 1 ELSE 0

(* The recording under way, or an earlier one that was committed, put it    *)
(* there; anything else is left over from one that failed.                  *)
Enqueued(f) ==
    \/ events[f[1]] = "queued"
    \/ recorder.event = f[1] /\ f[2] \in recorder.to \ recorder.todo

(* A first text is due once it is enqueued, another one for each mishap.    *)
Due(f) == Copies(f) <= mishaps + IF Enqueued(f) THEN 1 ELSE 0

Counted == \A f \in File : Due(f)

IInv == OutboxTypeOK /\ InHands /\ Saved /\ QueuedIsKept /\ Counted

-----------------------------------------------------------------------------
(* The initial state. *)
LEMMA InitIInv == OutboxInit => IInv
<1> SUFFICES ASSUME OutboxInit PROVE IInv
  OBVIOUS
<1>1. OutboxTypeOK
  <2>1. Asleep \in Bot /\ NoRecord \in Recorder
    BY DEF Asleep, Bot, NoRecord, Recorder
  <2>2. 0 \in 0..MaxMishaps
    BY OutboxAssumption
  <2> QED BY <2>1, <2>2 DEF OutboxInit, OutboxTypeOK
<1>2. InHands /\ Saved /\ QueuedIsKept
  BY DEF OutboxInit, InHands, Saved, QueuedIsKept, NoRecord, Asleep
<1>3. ASSUME NEW f \in File PROVE Due(f)
  BY DEF OutboxInit, Due, Copies, Pending
<1> QED BY <1>1, <1>2, <1>3 DEF IInv, Counted

(* Types. *)
LEMMA TypeNext ==
  ASSUME OutboxTypeOK, Saved, [OutboxNext]_outboxVars
  PROVE  OutboxTypeOK'
<1>1. ASSUME NEW e \in Event, RecordOnly(e) PROVE OutboxTypeOK'
  BY <1>1 DEF RecordOnly, outside, OutboxTypeOK
<1>2. ASSUME NEW e \in Event, RecordBegins(e) PROVE OutboxTypeOK'
  BY <1>2 DEF RecordBegins, outside, OutboxTypeOK, Recorder
<1>3. ASSUME RecordSaves PROVE OutboxTypeOK'
  BY <1>3 DEF RecordSaves, outside, Saved, OutboxTypeOK, Recorder, NoRecord, File
<1>4. ASSUME RecordCommits PROVE OutboxTypeOK'
  BY <1>4 DEF RecordCommits, outside, OutboxTypeOK, Recorder, NoRecord
<1>5. ASSUME RecordFails PROVE OutboxTypeOK'
  BY <1>5, OutboxAssumption DEF RecordFails, outside, Mishap, OutboxTypeOK, Recorder, NoRecord
<1>6. ASSUME BotRound PROVE OutboxTypeOK'
  BY <1>6 DEF BotRound, outside, recording, Asleep, First, OutboxTypeOK, Bot
<1>7. ASSUME BotSkips PROVE OutboxTypeOK'
  BY <1>7 DEF BotSkips, outside, recording, OutboxTypeOK, Bot
<1>8. ASSUME BotPicks PROVE OutboxTypeOK'
  BY <1>8 DEF BotPicks, outside, recording, Earliest, OutboxTypeOK, Bot
<1>9. ASSUME BotSends PROVE OutboxTypeOK'
  BY <1>9 DEF BotSends, outside, recording, Taken, OutboxTypeOK, Bot
<1>10. ASSUME SendFails PROVE OutboxTypeOK'
  <2>1. bot' \in Bot
    BY <1>10 DEF SendFails, OutboxTypeOK, Bot
  <2>2. Taken \in [File -> Nat]
    BY DEF Taken, OutboxTypeOK
  <2>3. mishaps' \in 0..MaxMishaps
    BY <1>10, OutboxAssumption DEF SendFails, Mishap, OutboxTypeOK
  <2> QED BY <1>10, <2>1, <2>2, <2>3 DEF SendFails, outside, recording, OutboxTypeOK
<1>11. ASSUME BotUnlinks PROVE OutboxTypeOK'
  <2>1. bot' \in Bot
    BY <1>11 DEF BotUnlinks, OutboxTypeOK, Bot
  <2> QED BY <1>11, <2>1 DEF BotUnlinks, outside, recording, OutboxTypeOK
<1>12. ASSUME UnlinkFails PROVE OutboxTypeOK'
  <2>1. bot' \in Bot
    BY <1>12 DEF UnlinkFails, OutboxTypeOK, Bot
  <2> QED BY <1>12, <2>1, OutboxAssumption DEF UnlinkFails, outside, recording, Mishap,
              OutboxTypeOK
<1>13. ASSUME BotSleeps PROVE OutboxTypeOK'
  BY <1>13 DEF BotSleeps, outside, recording, Asleep, OutboxTypeOK, Bot
<1>14. ASSUME BotRestarts PROVE OutboxTypeOK'
  BY <1>14, OutboxAssumption DEF BotRestarts, outside, recording, Mishap, Asleep, OutboxTypeOK,
      Bot
<1>15. ASSUME MatrixReady PROVE OutboxTypeOK'
  BY <1>15 DEF MatrixReady, recording, OutboxTypeOK
<1>16. ASSUME NEW r \in Recipient, CreateUser(r) PROVE OutboxTypeOK'
  BY <1>16 DEF CreateUser, recording, OutboxTypeOK
<1>17. ASSUME NEW r \in Recipient, Chat(r) PROVE OutboxTypeOK'
  BY <1>17 DEF Chat, recording, OutboxTypeOK
<1>18. ASSUME UNCHANGED outboxVars PROVE OutboxTypeOK'
  BY <1>18 DEF outboxVars, OutboxTypeOK
<1> QED
  BY <1>1, <1>2, <1>3, <1>4, <1>5, <1>6, <1>7, <1>8, <1>9, <1>10, <1>11, <1>12, <1>13, <1>14,
      <1>15, <1>16, <1>17, <1>18 DEF OutboxNext, BotLoops

(* Nobody but the bot removes files. *)
LEMMA InHandsNext ==
  ASSUME OutboxTypeOK, InHands, [OutboxNext]_outboxVars
  PROVE  InHands'
<1>1. ASSUME NEW e \in Event, RecordOnly(e) PROVE InHands'
  BY <1>1 DEF RecordOnly, InHands
<1>2. ASSUME NEW e \in Event, RecordBegins(e) PROVE InHands'
  BY <1>2 DEF RecordBegins, InHands
<1>3. ASSUME RecordSaves PROVE InHands'
  BY <1>3 DEF RecordSaves, InHands
<1>4. ASSUME RecordCommits PROVE InHands'
  BY <1>4 DEF RecordCommits, InHands
<1>5. ASSUME RecordFails PROVE InHands'
  BY <1>5 DEF RecordFails, InHands
<1>6. ASSUME BotRound PROVE InHands'
  BY <1>6 DEF BotRound, Asleep, InHands
<1>7. ASSUME BotSkips PROVE InHands'
  BY <1>7 DEF BotSkips, InHands
<1>8. ASSUME BotPicks PROVE InHands'
  BY <1>8 DEF BotPicks, Reachable, InHands
<1>9. ASSUME BotSends PROVE InHands'
  BY <1>9 DEF BotSends, Taken, InHands, OutboxTypeOK
<1>10. ASSUME SendFails PROVE InHands'
  BY <1>10 DEF SendFails, InHands
<1>11. ASSUME BotUnlinks PROVE InHands'
  BY <1>11 DEF BotUnlinks, InHands
<1>12. ASSUME UnlinkFails PROVE InHands'
  BY <1>12 DEF UnlinkFails, InHands
<1>13. ASSUME BotSleeps PROVE InHands'
  BY <1>13 DEF BotSleeps, Asleep, InHands
<1>14. ASSUME BotRestarts PROVE InHands'
  BY <1>14 DEF BotRestarts, Asleep, InHands
<1>15. ASSUME MatrixReady PROVE InHands'
  BY <1>15 DEF MatrixReady, InHands
<1>16. ASSUME NEW r \in Recipient, CreateUser(r) PROVE InHands'
  BY <1>16 DEF CreateUser, InHands
<1>17. ASSUME NEW r \in Recipient, Chat(r) PROVE InHands'
  BY <1>17 DEF Chat, InHands
<1>18. ASSUME UNCHANGED outboxVars PROVE InHands'
  BY <1>18 DEF outboxVars, InHands
<1> QED
  BY <1>1, <1>2, <1>3, <1>4, <1>5, <1>6, <1>7, <1>8, <1>9, <1>10, <1>11, <1>12, <1>13, <1>14,
      <1>15, <1>16, <1>17, <1>18 DEF OutboxNext, BotLoops

(* What was saved is there or was sent. *)
LEMMA SavedNext ==
  ASSUME OutboxTypeOK, InHands, Saved, [OutboxNext]_outboxVars
  PROVE  Saved'
<1>1. ASSUME NEW e \in Event, RecordOnly(e) PROVE Saved'
  BY <1>1 DEF RecordOnly, Saved
<1>2. ASSUME NEW e \in Event, RecordBegins(e) PROVE Saved'
  BY <1>2, OutboxAssumption DEF RecordBegins, Notifies, Saved
<1>3. ASSUME RecordSaves PROVE Saved'
  BY <1>3 DEF RecordSaves, Saved, NoRecord
<1>4. ASSUME RecordCommits PROVE Saved'
  BY <1>4 DEF RecordCommits, Saved, NoRecord
<1>5. ASSUME RecordFails PROVE Saved'
  BY <1>5 DEF RecordFails, Saved, NoRecord
<1>6. ASSUME BotRound PROVE Saved'
  BY <1>6 DEF BotRound, recording, Saved
<1>7. ASSUME BotSkips PROVE Saved'
  BY <1>7 DEF BotSkips, recording, Saved
<1>8. ASSUME BotPicks PROVE Saved'
  BY <1>8 DEF BotPicks, recording, Saved
<1>9. ASSUME BotSends PROVE Saved'
  BY <1>9 DEF BotSends, recording, Taken, Saved, OutboxTypeOK, Recorder, File
<1>10. ASSUME SendFails PROVE Saved'
  BY <1>10 DEF SendFails, recording, Taken, Saved, OutboxTypeOK, Recorder, File
<1>11. ASSUME BotUnlinks PROVE Saved'
  BY <1>11 DEF BotUnlinks, recording, Saved, InHands
<1>12. ASSUME UnlinkFails PROVE Saved'
  BY <1>12 DEF UnlinkFails, recording, Saved
<1>13. ASSUME BotSleeps PROVE Saved'
  BY <1>13 DEF BotSleeps, recording, Saved
<1>14. ASSUME BotRestarts PROVE Saved'
  BY <1>14 DEF BotRestarts, recording, Saved
<1>15. ASSUME MatrixReady PROVE Saved'
  BY <1>15 DEF MatrixReady, recording, Saved
<1>16. ASSUME NEW r \in Recipient, CreateUser(r) PROVE Saved'
  BY <1>16 DEF CreateUser, recording, Saved
<1>17. ASSUME NEW r \in Recipient, Chat(r) PROVE Saved'
  BY <1>17 DEF Chat, recording, Saved
<1>18. ASSUME UNCHANGED outboxVars PROVE Saved'
  BY <1>18 DEF outboxVars, Saved
<1> QED
  BY <1>1, <1>2, <1>3, <1>4, <1>5, <1>6, <1>7, <1>8, <1>9, <1>10, <1>11, <1>12, <1>13, <1>14,
      <1>15, <1>16, <1>17, <1>18 DEF OutboxNext, BotLoops

(* A queued event keeps its files or was sent. *)
LEMMA KeptNext ==
  ASSUME OutboxTypeOK, InHands, Saved, QueuedIsKept, [OutboxNext]_outboxVars
  PROVE  QueuedIsKept'
<1>1. ASSUME NEW e \in Event, RecordOnly(e) PROVE QueuedIsKept'
  BY <1>1 DEF RecordOnly, QueuedIsKept
<1>2. ASSUME NEW e \in Event, RecordBegins(e) PROVE QueuedIsKept'
  BY <1>2 DEF RecordBegins, QueuedIsKept
<1>3. ASSUME RecordSaves PROVE QueuedIsKept'
  BY <1>3 DEF RecordSaves, QueuedIsKept
<1>4. ASSUME RecordCommits PROVE QueuedIsKept'
  BY <1>4 DEF RecordCommits, QueuedIsKept, Saved, OutboxTypeOK
<1>5. ASSUME RecordFails PROVE QueuedIsKept'
  BY <1>5 DEF RecordFails, QueuedIsKept
<1>6. ASSUME BotRound PROVE QueuedIsKept'
  BY <1>6 DEF BotRound, recording, QueuedIsKept
<1>7. ASSUME BotSkips PROVE QueuedIsKept'
  BY <1>7 DEF BotSkips, recording, QueuedIsKept
<1>8. ASSUME BotPicks PROVE QueuedIsKept'
  BY <1>8 DEF BotPicks, recording, QueuedIsKept
<1>9. ASSUME BotSends PROVE QueuedIsKept'
  BY <1>9 DEF BotSends, recording, Taken, QueuedIsKept, OutboxTypeOK, File
<1>10. ASSUME SendFails PROVE QueuedIsKept'
  BY <1>10 DEF SendFails, recording, Taken, QueuedIsKept, OutboxTypeOK, File
<1>11. ASSUME BotUnlinks PROVE QueuedIsKept'
  BY <1>11 DEF BotUnlinks, recording, QueuedIsKept, InHands
<1>12. ASSUME UnlinkFails PROVE QueuedIsKept'
  BY <1>12 DEF UnlinkFails, recording, QueuedIsKept
<1>13. ASSUME BotSleeps PROVE QueuedIsKept'
  BY <1>13 DEF BotSleeps, recording, QueuedIsKept
<1>14. ASSUME BotRestarts PROVE QueuedIsKept'
  BY <1>14 DEF BotRestarts, recording, QueuedIsKept
<1>15. ASSUME MatrixReady PROVE QueuedIsKept'
  BY <1>15 DEF MatrixReady, recording, QueuedIsKept
<1>16. ASSUME NEW r \in Recipient, CreateUser(r) PROVE QueuedIsKept'
  BY <1>16 DEF CreateUser, recording, QueuedIsKept
<1>17. ASSUME NEW r \in Recipient, Chat(r) PROVE QueuedIsKept'
  BY <1>17 DEF Chat, recording, QueuedIsKept
<1>18. ASSUME UNCHANGED outboxVars PROVE QueuedIsKept'
  BY <1>18 DEF outboxVars, QueuedIsKept
<1> QED
  BY <1>1, <1>2, <1>3, <1>4, <1>5, <1>6, <1>7, <1>8, <1>9, <1>10, <1>11, <1>12, <1>13, <1>14,
      <1>15, <1>16, <1>17, <1>18 DEF OutboxNext, BotLoops

(* Every step that adds a copy adds a mishap, or has the one copy to spare. *)
LEMMA CountedNext ==
  ASSUME OutboxTypeOK, InHands, Saved, Counted, [OutboxNext]_outboxVars
  PROVE  Counted'
<1> SUFFICES ASSUME NEW f \in File PROVE Due(f)'
  BY DEF Counted
<1>0. Due(f)
  BY DEF Counted
<1>1. ASSUME NEW e \in Event, RecordOnly(e) PROVE Due(f)'
  BY <1>0, <1>1 DEF RecordOnly, Due, Copies, Pending, Enqueued
<1>2. ASSUME NEW e \in Event, RecordBegins(e) PROVE Due(f)'
  BY <1>0, <1>2 DEF RecordBegins, Due, Copies, Pending, Enqueued, NoRecord
<1>3. ASSUME RecordSaves PROVE Due(f)'
  BY <1>0, <1>3 DEF RecordSaves, Due, Copies, Pending, Enqueued, Saved,
    OutboxTypeOK, NoRecord
<1>4. ASSUME RecordCommits PROVE Due(f)'
  BY <1>0, <1>4 DEF RecordCommits, Due, Copies, Pending, Enqueued, Saved,
    OutboxTypeOK
<1>5. ASSUME RecordFails PROVE Due(f)'
  BY <1>0, <1>5 DEF RecordFails, Mishap, Due, Copies, Pending, OutboxTypeOK
<1>6. ASSUME BotRound PROVE Due(f)'
  BY <1>0, <1>6 DEF BotRound, recording, Due, Copies, Pending, Enqueued
<1>7. ASSUME BotSkips PROVE Due(f)'
  BY <1>0, <1>7 DEF BotSkips, recording, Due, Copies, Pending, Enqueued
<1>8. ASSUME BotPicks PROVE Due(f)'
  BY <1>0, <1>8 DEF BotPicks, recording, Due, Copies, Pending, Enqueued
<1>9. ASSUME BotSends PROVE Due(f)'
  BY <1>0, <1>9 DEF BotSends, recording, Taken, Due, Copies, Pending, Enqueued,
    InHands, OutboxTypeOK
<1>10. ASSUME SendFails PROVE Due(f)'
  BY <1>0, <1>10 DEF SendFails, recording, Mishap, Taken, Due, Copies, Pending,
    Enqueued, OutboxTypeOK
<1>11. ASSUME BotUnlinks PROVE Due(f)'
  BY <1>0, <1>11 DEF BotUnlinks, recording, Due, Copies, Pending, Enqueued
<1>12. ASSUME UnlinkFails PROVE Due(f)'
  BY <1>0, <1>12 DEF UnlinkFails, recording, Mishap, Due, Copies, Enqueued,
    OutboxTypeOK
<1>13. ASSUME BotSleeps PROVE Due(f)'
  BY <1>0, <1>13 DEF BotSleeps, recording, Asleep, Due, Copies, Pending,
    Enqueued
<1>14. ASSUME BotRestarts PROVE Due(f)'
  BY <1>0, <1>14 DEF BotRestarts, recording, Mishap, Due, Copies, Enqueued,
    OutboxTypeOK
<1>15. ASSUME MatrixReady PROVE Due(f)'
  BY <1>0, <1>15 DEF MatrixReady, recording, Due, Copies, Pending, Enqueued
<1>16. ASSUME NEW r \in Recipient, CreateUser(r) PROVE Due(f)'
  BY <1>0, <1>16 DEF CreateUser, recording, Due, Copies, Pending, Enqueued
<1>17. ASSUME NEW r \in Recipient, Chat(r) PROVE Due(f)'
  BY <1>0, <1>17 DEF Chat, recording, Due, Copies, Pending, Enqueued
<1>18. ASSUME UNCHANGED outboxVars PROVE Due(f)'
  BY <1>0, <1>18 DEF outboxVars, Due, Copies, Pending, Enqueued
<1> QED
  BY <1>1, <1>2, <1>3, <1>4, <1>5, <1>6, <1>7, <1>8, <1>9, <1>10, <1>11, <1>12, <1>13, <1>14,
      <1>15, <1>16, <1>17, <1>18 DEF OutboxNext, BotLoops

(* Together. *)
LEMMA Invariance == OutboxSpec => []IInv
<1>1. OutboxInit => IInv
  BY InitIInv
<1>2. IInv /\ [OutboxNext]_outboxVars => IInv'
  <2> SUFFICES ASSUME IInv, [OutboxNext]_outboxVars PROVE IInv'
    OBVIOUS
  <2> USE DEF IInv
  <2> QED BY TypeNext, InHandsNext, SavedNext, KeptNext, CountedNext
<1> QED BY <1>1, <1>2, PTL DEF OutboxSpec

(* Every variable of BotOutbox keeps its type. *)
THEOREM OutboxTypes == OutboxSpec => []OutboxTypeOK
<1>1. IInv => OutboxTypeOK
  BY DEF IInv
<1> QED BY <1>1, Invariance, PTL

(* An event that was answered as queued is kept for each recipient until    *)
(* the server took it, whatever fails or restarts (QueuedIsKept).           *)
THEOREM QueuedKept == OutboxSpec => []QueuedIsKept
<1>1. IInv => QueuedIsKept
  BY DEF IInv
<1> QED BY <1>1, Invariance, PTL

(* Without mishaps every text is delivered at most once, and with them at   *)
(* most once more for each (CopiesNeedMishaps).                             *)
THEOREM CopiesBounded == OutboxSpec => []CopiesNeedMishaps
<1>1. IInv => CopiesNeedMishaps
  <2> SUFFICES ASSUME IInv, NEW f \in File PROVE delivered[f] <= 1 + mishaps
    BY DEF CopiesNeedMishaps
  <2>1. Due(f)
    BY DEF IInv, Counted
  <2>2. delivered[f] \in Nat /\ mishaps \in Nat
    BY OutboxAssumption DEF IInv, OutboxTypeOK
  <2> QED BY <2>1, <2>2 DEF Due, Copies
<1> QED BY <1>1, Invariance, PTL
=============================================================================

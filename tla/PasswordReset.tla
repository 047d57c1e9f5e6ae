--------------------------- MODULE PasswordReset ---------------------------
(***************************************************************************)
(* The forgotten password of one account (services/password_reset.py): a    *)
(* code is mailed, answered with a token, and the token sets a password.    *)
(* Each of the three reads its row in one statement and writes it in        *)
(* another, and requests overlap.  Rows of password_reset_challenges are    *)
(* numbered as they were inserted; a code's token is counted up, so the     *)
(* last one is the one whose hash the row has.                              *)
(***************************************************************************)
EXTENDS Integers, FiniteSets, Sequences

CONSTANTS Asker,      \* requests, one at a time each
          Guesses,    \* wrong codes a challenge takes (five)
          PerHour,    \* challenges an account gets in an hour (five)
          Recent,     \* how long one stands for a new one (a minute)
          Life,       \* how long a code is good for (five minutes)
          Hour,
          MaxNow,     \* bound on the clock
          MaxTokens   \* bound on the tokens of a challenge

ASSUME ResetAssumption ==
    /\ IsFiniteSet(Asker) /\ Asker # {}
    /\ Guesses \in Nat /\ PerHour \in Nat
    /\ Recent \in Nat /\ Life \in Nat /\ Hour \in Nat /\ MaxNow \in Nat /\ MaxTokens \in Nat

VARIABLES now,         \* the clock
          challenges,  \* the table
          asker,       \* the requests
          over         \* history: challenges there were when a reset ended well

resetVars == <<now, challenges, asker, over>>

Challenge == [made : Nat, attempts : Nat, token : 0..MaxTokens, used : BOOLEAN]

ResetTypeOK ==
    /\ now \in 0..MaxNow
    /\ challenges \in Seq(Challenge)
    /\ asker \in [Asker -> [at : {"idle", "insert", "count", "verify", "change", "mark"},
                            row : Nat]]
    /\ \A a \in Asker : asker[a].at \in {"count", "verify"} => asker[a].row \in DOMAIN challenges
    /\ over \in Nat

NoAsk == [at |-> "idle", row |-> 0]

ResetInit ==
    /\ now = 0 /\ challenges = <<>> /\ over = 0
    /\ asker = [a \in Asker |-> NoAsk]

AskerGoes(a, at, row) == asker' = [asker EXCEPT ![a] = [at |-> at, row |-> row]]
AskerAt(a, at)        == asker[a].at = at
AskerDone(a)          == asker' = [asker EXCEPT ![a] = NoAsk]

Rows    == DOMAIN challenges
Fresh(r) == challenges[r].made + Life > now

Tick == now < MaxNow /\ now' = now + 1 /\ UNCHANGED <<challenges, asker, over>>

-----------------------------------------------------------------------------
(* A code is asked for: at most one a minute, a few an hour.                 *)

Standing   == {r \in Rows : ~challenges[r].used /\ Fresh(r) /\ challenges[r].made > now - Recent}
LastHour   == {r \in Rows : challenges[r].made > now - Hour}

AskReads(a) ==
    /\ AskerAt(a, "idle")
    /\ Standing = {} /\ Cardinality(LastHour) < PerHour
    /\ AskerGoes(a, "insert", 0)
    /\ UNCHANGED <<now, challenges, over>>

(* The mail may not arrive; the row is there all the same.                   *)
AskInserts(a) ==
    /\ AskerAt(a, "insert") /\ AskerDone(a)
    /\ challenges' = Append(challenges, [made |-> now, attempts |-> 0,
                                         token |-> 0, used |-> FALSE])
    /\ UNCHANGED <<now, over>>

-----------------------------------------------------------------------------
(* A code is answered. *)

Open(r) == /\ ~challenges[r].used /\ challenges[r].token = 0
           /\ challenges[r].attempts < Guesses

(* A wrong code, or one too late: compared first, counted after.             *)
AnswerWrong(a, r) ==
    /\ AskerAt(a, "idle") /\ Open(r)
    /\ AskerGoes(a, "count", r)
    /\ UNCHANGED <<now, challenges, over>>

AnswerCounts(a) ==
    /\ AskerAt(a, "count") /\ AskerDone(a)
    /\ challenges' = [challenges EXCEPT ![asker[a].row].attempts = @ + 1]
    /\ UNCHANGED <<now, over>>

AnswerRight(a, r) ==
    /\ AskerAt(a, "idle") /\ Open(r) /\ Fresh(r)
    /\ AskerGoes(a, "verify", r)
    /\ UNCHANGED <<now, challenges, over>>

(* The hash of a token made for this answer, in place of any other.          *)
AnswerVerifies(a) ==
    /\ AskerAt(a, "verify") /\ AskerDone(a)
    /\ challenges[asker[a].row].token < MaxTokens
    /\ challenges' = [challenges EXCEPT ![asker[a].row].token = @ + 1]
    /\ UNCHANGED <<now, over>>

-----------------------------------------------------------------------------
(* A password is set: by whom the last token was given to.                   *)

SetReads(a, r) ==
    /\ AskerAt(a, "idle")
    /\ challenges[r].token > 0 /\ ~challenges[r].used /\ Fresh(r)
    /\ AskerGoes(a, "change", r)
    /\ UNCHANGED <<now, challenges, over>>

(* AuthService.change_password; an exception of it ends the request.         *)
SetChanges(a) ==
    /\ AskerAt(a, "change")
    /\ AskerGoes(a, "mark", asker[a].row) \/ AskerDone(a)
    /\ UNCHANGED <<now, challenges, over>>

SetMarksOwn(a) ==
    /\ AskerAt(a, "mark") /\ AskerDone(a)
    /\ challenges' = [challenges EXCEPT ![asker[a].row].used = TRUE]
    /\ over' = Len(challenges)
    /\ UNCHANGED now

(* All of the account's challenges are used with it.                         *)
SetMarks(a) ==
    /\ AskerAt(a, "mark") /\ AskerDone(a)
    /\ challenges' = [r \in Rows |-> [challenges[r] EXCEPT !.used = TRUE]]
    /\ over' = Len(challenges)
    /\ UNCHANGED now

-----------------------------------------------------------------------------
ResetNext ==
    \/ Tick
    \/ \E a \in Asker :
        \/ AskReads(a) \/ AskInserts(a)
        \/ \E r \in Rows : AnswerWrong(a, r) \/ AnswerRight(a, r) \/ SetReads(a, r)
        \/ AnswerCounts(a) \/ AnswerVerifies(a)
        \/ SetChanges(a) \/ SetMarks(a)

ResetSpec == ResetInit /\ [][ResetNext]_resetVars

-----------------------------------------------------------------------------
(* Properties *)

(* Once a reset has ended, nothing that was mailed before it can begin        *)
(* another one: neither its own code nor an older one.                       *)
ResetEndsCodes ==
    [][\A a \in Asker : AskerAt(a, "idle") /\ asker'[a].at = "change"
          => asker'[a].row > over]_resetVars
=============================================================================

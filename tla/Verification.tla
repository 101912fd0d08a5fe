---------------------------- MODULE Verification ----------------------------
(***************************************************************************)
(* The verification of an e-mail address: create_user, resend-code and     *)
(* verify-email of auth_users/user_api.py on the table verification_tokens *)
(* (database/user_mgmt.py).  Codes are numbered as they are mailed; mails  *)
(* may arrive late, so that any code mailed so far may be presented.       *)
(*                                                                         *)
(* verify_email is a coroutine without an await: of its two commits each   *)
(* may fail without a word, and the process can die between them.          *)
(*                                                                         *)
(* The token of a password reset is mailed to nobody and returned by no    *)
(* handler, and the confirmation changes nothing: both are left out.       *)
(***************************************************************************)
EXTENDS Naturals
CONSTANTS MaxResends, NoToken

ASSUME MaxResendsAssumption == MaxResends \in Nat \ {0}

\* A row of verification_tokens.  code: which of the codes mailed; fresh: two
\* minutes have not passed since last_resend_at.
Token == [code : 1..MaxResends + 1, resends : 0..MaxResends, fresh : BOOLEAN, expired : BOOLEAN]
ASSUME NoTokenAssumption == NoToken \notin Token

VARIABLES
  token,     \* the row, or NoToken
  mailed,    \* codes mailed
  told,      \* resends_remaining in the last answer of resend-code
  verified,  \* 0, or the code that set users.email_verified last
  verifying, \* 0, or the code of the verify_email between its two commits
  spared     \* some verify_email did not delete the token

mvars == <<token, mailed, told, verified, verifying, spared>>

VerificationInit ==
  /\ token = NoToken
  /\ mailed = 0
  /\ told = MaxResends
  /\ verified = 0
  /\ verifying = 0
  /\ spared = FALSE

\* create_user: a second one for a known address answers alike and does nothing.
\* When the token cannot be stored, its code is mailed all the same.
CreateUser ==
  /\ mailed = 0
  /\ token' \in {NoToken, [code |-> 1, resends |-> 0, fresh |-> TRUE, expired |-> FALSE]}
  /\ mailed' = 1
  /\ UNCHANGED <<told, verified, verifying, spared>>

Valid == token # NoToken /\ ~token.expired

\* Slip, for VerifiedByLastCode: the new code is mailed and not stored.
ResentCode(t, code) == [t EXCEPT !.resends = @ + 1, !.fresh = TRUE]

\* The row after try_resend_verification_token.
Resent(t, code) == [t EXCEPT !.code = code, !.resends = @ + 1, !.fresh = TRUE]

\* Slip, for ToldRemaining: the answer is computed as if the row were read again.
RemainingTwice(t) == MaxResends - t.resends

\* resends_remaining, from the row read before the resend: "2 - resend_count".
Remaining(t) == MaxResends - 1 - t.resends

\* resend_verification_code, when it is neither too early nor once too often.
ResendCode ==
  /\ verifying = 0
  /\ Valid
  /\ token.resends < MaxResends
  /\ ~token.fresh
  /\ token' = Resent(token, mailed + 1)
  /\ mailed' = mailed + 1
  /\ told' = Remaining(token)
  /\ UNCHANGED <<verified, verifying, spared>>

\* verify_email with code c, up to mark_email_verified, whose failure is ignored.
VerifyEmail(c) ==
  /\ verifying = 0
  /\ Valid
  /\ token.code = c
  /\ verified' \in {c, verified}
  /\ verifying' = c
  /\ UNCHANGED <<token, mailed, told, spared>>

\* consume_verification_token; its failure is ignored as well, and it does not
\* come to it when the process dies after the first commit.
ConsumeToken ==
  /\ verifying # 0
  /\ \/ token' = NoToken /\ UNCHANGED spared
     \/ spared' = TRUE /\ UNCHANGED token
  /\ verifying' = 0
  /\ UNCHANGED <<mailed, told, verified>>

CooldownOver ==
  /\ token # NoToken /\ token.fresh
  /\ token' = [token EXCEPT !.fresh = FALSE]
  /\ UNCHANGED <<mailed, told, verified, verifying, spared>>

VerificationExpires ==
  /\ Valid
  /\ token' = [token EXCEPT !.expired = TRUE]
  /\ UNCHANGED <<mailed, told, verified, verifying, spared>>

VerificationNext ==
  \/ CreateUser \/ ResendCode \/ ConsumeToken \/ CooldownOver \/ VerificationExpires
  \/ \E c \in 1..mailed : VerifyEmail(c)

VerificationSpec == VerificationInit /\ [][VerificationNext]_mvars
-----------------------------------------------------------------------------
VerificationTypeOK ==
  /\ token \in Token \cup {NoToken}
  /\ mailed \in 0..MaxResends + 1
  /\ told \in 0..MaxResends
  /\ verified \in 0..MaxResends + 1
  /\ verifying \in 0..MaxResends + 1
  /\ spared \in BOOLEAN

\* An address is verified only by the last code that was mailed to it, though
\* the earlier ones arrive and are tried: the row holds no other, a request
\* between its commits goes by no other, and no code follows the one that
\* verified, unless the token outlived it (verify_email, resend_verification_code).
VerifiedByLastCode ==
  /\ token # NoToken => token.code = mailed
  /\ verifying # 0 => verifying = mailed
  /\ verified # 0 => verified = mailed \/ spared

\* resend-code announces the resends that are left, though it counts from a row
\* read before the resend.
ToldRemaining == token # NoToken => told = MaxResends - token.resends

\* A verification goes by the last code, and says what is left of it.
VerificationSound ==
  /\ VerificationTypeOK
  /\ VerifiedByLastCode
  /\ ToldRemaining
=============================================================================

-------------------------------- MODULE Factors --------------------------------
(***************************************************************************)
(* The MFA factors of AuthService (crates/sunbolt-auth/src/lib.rs with     *)
(* recovery_codes.rs, totp.rs, passkeys.rs and mfa.rs): recovery codes,    *)
(* TOTP secrets and passkeys. Several operations take the store's mutex    *)
(* more than once, looking a factor up under one lock and using it under   *)
(* another; call[c] says where the operation of caller c is in between.    *)
(*                                                                         *)
(* The factor list of a user only grows, so a factor is named by its user  *)
(* and its place in the list, <<u, i>>. A random value (a code, a TOTP     *)
(* secret, a challenge) is never drawn twice. The clock is read only to     *)
(* number TOTP periods, so `period` stands for it.                         *)
(***************************************************************************)
EXTENDS Requests, Integers, Sequences, FiniteSets

CONSTANTS
    Person,      \* ids of users; all exist
    Code,        \* the codes generate_recovery_code can draw
    BatchSize,   \* DEFAULT_CODE_COUNT
    Challenge,   \* the challenges random_challenge can draw
    SkewSteps,   \* DEFAULT_SKEW_STEPS
    MaxFactors,  \* a bound: factors per user in an instance
    MaxPeriod,   \* a bound: TOTP periods in an instance
    Counter      \* a bound: the counters whose codes are presented

ASSUME FactorsAssumption ==
    /\ {BatchSize, SkewSteps, MaxFactors, MaxPeriod} \subseteq Nat
    /\ Counter \subseteq Nat
    /\ Absent \notin Person

VARIABLES
    period,      \* the TOTP period of the clock's time
    factors,     \* factor_ids_by_user_id with auth_factors_by_id
    secrets,     \* the factors that have an entry in totp_secrets_by_factor_id
    codes,       \* recovery_codes_by_factor_id: the unused codes of a factor
    pending,     \* passkey_registration_challenges_by_id: whose challenge it is
    asked,       \* passkey_authentication_challenges_by_id
    credentials, \* passkey_credentials_by_id in order: the owner, and the challenge it answered
    call,        \* the operations under way
    owner,       \* history: to whom a code or a challenge was handed out
    replaced,    \* history: codes of batches that a newer batch of the factor replaced
    redeemed,    \* history: who redeemed which code, in order
    passed       \* history: the TOTP codes accepted, <<factor, counter>>, and when

factorVars ==
    <<period, factors, secrets, codes, pending, asked, credentials, call, owner, replaced,
      redeemed, passed>>

FactorType == {"Totp", "RecoveryCode", "WebAuthn"}
FactorId   == Person \X (1..MaxFactors)
Nothing    == [pc |-> "idle", person |-> Absent, factor |-> Absent, item |-> Absent]
Item       == Code \cup Challenge \cup (SUBSET Challenge) \cup {Absent}
Operation  ==
    [pc : {"idle", "generate", "store", "redeem", "secret", "totp", "passkey_factor",
           "credential", "ask"},
     person : Person \cup {Absent}, factor : FactorId \cup {Absent}, item : Item]
\* hotp_sha256 of a factor's secret and a counter, taken to give each its own code.
TotpCode == FactorId \X Counter
Elapsed  == 0..MaxPeriod

FactorsTypeOK ==
    /\ period \in Elapsed
    /\ factors \in [Person -> Seq(FactorType)]
    /\ \A u \in Person : Len(factors[u]) <= MaxFactors
    /\ secrets \in SUBSET FactorId
    /\ codes \in [FactorId -> SUBSET Code]
    /\ pending \in [Challenge -> Person \cup {Absent}]
    /\ asked \in [Challenge -> SUBSET Challenge]
    /\ credentials \in Seq(Person \X Challenge)
    /\ call \in [Caller -> Operation]
    /\ owner \in [Code \cup Challenge -> Person \cup {Absent}]
    /\ replaced \in SUBSET Code
    /\ redeemed \in Seq(Person \X Code)
    /\ passed \in SUBSET (TotpCode \X Elapsed)

FactorsInit ==
    /\ period = 0
    /\ factors = [u \in Person |-> <<>>]
    /\ secrets = {}
    /\ codes = [f \in FactorId |-> {}]
    /\ pending = [x \in Challenge |-> Absent]
    /\ asked = [x \in Challenge |-> {}]
    /\ credentials = <<>>
    /\ call = [c \in Caller |-> Nothing]
    /\ owner = [x \in Code \cup Challenge |-> Absent]
    /\ replaced = {}
    /\ redeemed = <<>>
    /\ passed = {}

-----------------------------------------------------------------------------
Calling(c, pc)    == call[c].pc = pc
Return(c)         == call' = [call EXCEPT ![c] = Nothing]
Proceed(c, pc, u, f, x) ==
    call' = [call EXCEPT ![c] = [pc |-> pc, person |-> u, factor |-> f, item |-> x]]

\* factors_for_user: a factor is never disabled.
FactorsOf(u) == factors[u]

\* The factors of this type, of which find takes the first: none or one.
First(u, type) ==
    {<<u, i>> : i \in {j \in DOMAIN FactorsOf(u) :
        FactorsOf(u)[j] = type /\ \A k \in 1..j - 1 : FactorsOf(u)[k] # type}}
\* totp_factor_for_user: the first that has its secret.
FirstWithSecret(u) ==
    {<<u, i>> : i \in {j \in DOMAIN factors[u] :
        <<u, j>> \in secrets /\ \A k \in 1..j - 1 : <<u, k>> \notin secrets}}

\* enroll_factor; the caller goes on with the new factor.
Enroll(c, u, type, pc, x) ==
    /\ Len(factors[u]) < MaxFactors
    /\ factors' = [factors EXCEPT ![u] = Append(@, type)]
    /\ Proceed(c, pc, u, <<u, Len(factors[u]) + 1>>, x)
    /\ UNCHANGED <<period, secrets, codes, pending, asked, credentials, owner, replaced, redeemed,
                   passed>>

OnlyCall ==
    UNCHANGED <<period, factors, secrets, codes, pending, asked, credentials, owner, replaced, redeemed,
                passed>>

\* generate_recovery_codes, called for a user or by regenerate_recovery_codes.
Generate(c, u) ==
    /\ Calling(c, "idle") \/ (Calling(c, "generate") /\ u = call[c].person)
    /\ Enroll(c, u, "RecoveryCode", "store", Absent)

\* regenerate_recovery_codes up to recovery_code_factor_for_user's answer.
Regenerate(c, u) ==
    /\ Calling(c, "idle")
    /\ IF First(u, "RecoveryCode") = {}
       THEN Proceed(c, "generate", u, Absent, Absent)
       ELSE \E f \in First(u, "RecoveryCode") : Proceed(c, "store", u, f, Absent)
    /\ OnlyCall

\* generate_recovery_code
NewCodes == {k \in Code : owner[k] = Absent}

\* The batches of codes generate_recovery_codes can make.
Batches == {b \in SUBSET NewCodes : Cardinality(b) = BatchSize}

\* A variant with a fault: the new records are added to the old ones.
StoreCodesAdding(c) ==
    /\ Calling(c, "store")
    /\ \E batch \in Batches :
        /\ codes' = [codes EXCEPT ![call[c].factor] = @ \cup batch]
        /\ owner' = [x \in DOMAIN owner |-> IF x \in batch THEN call[c].person ELSE owner[x]]
        /\ replaced' = replaced \cup codes[call[c].factor]
    /\ Return(c)
    /\ UNCHANGED <<period, factors, secrets, pending, asked, credentials, redeemed, passed>>

\* store_recovery_code_records: the batch replaces what the factor had, and is returned.
StoreCodes(c) ==
    /\ Calling(c, "store")
    /\ \E batch \in Batches :
        /\ codes' = [codes EXCEPT ![call[c].factor] = batch]
        /\ owner' = [x \in DOMAIN owner |-> IF x \in batch THEN call[c].person ELSE owner[x]]
        /\ replaced' = replaced \cup codes[call[c].factor]
    /\ Return(c)
    /\ UNCHANGED <<period, factors, secrets, pending, asked, credentials, redeemed, passed>>

\* verify_recovery_code up to the factor.
VerifyRecoveryCode(c, u, k) ==
    /\ Calling(c, "idle")
    /\ \E f \in First(u, "RecoveryCode") : Proceed(c, "redeem", u, f, k)
    /\ OnlyCall

\* A variant with a fault: the match is made under one lock and the flag set by nobody.
RedeemUnmarked(c) ==
    LET f == call[c].factor  k == call[c].item IN
    /\ Calling(c, "redeem")
    /\ redeemed' = IF k \in codes[f] THEN Append(redeemed, <<call[c].person, k>>) ELSE redeemed
    /\ Return(c)
    /\ UNCHANGED <<period, factors, secrets, codes, pending, asked, credentials, owner, replaced, passed>>

\* verify_recovery_code under its second lock: an unused record that matches is marked.
Redeem(c) ==
    LET f == call[c].factor  k == call[c].item IN
    /\ Calling(c, "redeem")
    /\ codes' = [codes EXCEPT ![f] = @ \ {k}]
    /\ redeemed' = IF k \in codes[f] THEN Append(redeemed, <<call[c].person, k>>) ELSE redeemed
    /\ Return(c)
    /\ UNCHANGED <<period, factors, secrets, pending, asked, credentials, owner, replaced, passed>>

\* enroll_totp_factor_with_secret: the factor, then its secret.
EnrollTotp(c, u) ==
    /\ Calling(c, "idle")
    /\ Enroll(c, u, "Totp", "secret", Absent)

InsertSecret(c) ==
    /\ Calling(c, "secret")
    /\ secrets' = secrets \cup {call[c].factor}
    /\ Return(c)
    /\ UNCHANGED <<period, factors, codes, pending, asked, credentials, owner, replaced, redeemed, passed>>

-----------------------------------------------------------------------------
\* random_challenge, for a registration or an authentication.
NewChallenges == {x \in Challenge : owner[x] = Absent}

\* begin_passkey_registration
BeginRegistration(u, x) ==
    /\ x \in NewChallenges
    /\ owner' = [owner EXCEPT ![x] = u]
    /\ pending' = [pending EXCEPT ![x] = u]
    /\ UNCHANGED <<period, factors, secrets, codes, asked, credentials, call, replaced, redeemed, passed>>

\* register_passkey_credential up to ensure_passkey_factor's lookup.
RegisterPasskey(c, u, x) ==
    /\ Calling(c, "idle")
    /\ owner[x] # Absent
    /\ Proceed(c, IF First(u, "WebAuthn") = {} THEN "passkey_factor" ELSE "credential", u, Absent, x)
    /\ OnlyCall

\* ensure_passkey_factor enrolls what it did not find.
EnrollPasskeyFactor(c) ==
    /\ Calling(c, "passkey_factor")
    /\ Enroll(c, call[c].person, "WebAuthn", "credential", call[c].item)

\* A variant with a fault: the challenge is looked up and left in place.
StoreCredentialKeeping(c) ==
    LET u == call[c].person  x == call[c].item IN
    /\ Calling(c, "credential")
    /\ credentials' = IF pending[x] = u THEN Append(credentials, <<u, x>>) ELSE credentials
    /\ Return(c)
    /\ UNCHANGED <<period, factors, secrets, codes, pending, asked, owner, replaced, redeemed, passed>>

\* register_passkey_credential: the challenge is consumed, also by a user it was not made for.
StoreCredential(c) ==
    LET u == call[c].person  x == call[c].item IN
    /\ Calling(c, "credential")
    /\ pending' = [pending EXCEPT ![x] = Absent]
    /\ credentials' = IF pending[x] = u THEN Append(credentials, <<u, x>>) ELSE credentials
    /\ Return(c)
    /\ UNCHANGED <<period, factors, secrets, codes, asked, owner, replaced, redeemed, passed>>

\* begin_passkey_authentication: passkeys_for_user, and under another lock the challenge.
BeginAuthentication(c, u) ==
    LET own == {x \in Challenge : \E i \in DOMAIN credentials : credentials[i] = <<u, x>>} IN
    /\ Calling(c, "idle")
    /\ own # {}
    /\ Proceed(c, "ask", u, Absent, own)
    /\ OnlyCall

StoreAuthentication(c) ==
    /\ Calling(c, "ask")
    /\ \E x \in NewChallenges :
        /\ owner' = [owner EXCEPT ![x] = call[c].person]
        /\ asked' = [asked EXCEPT ![x] = call[c].item]
    /\ Return(c)
    /\ UNCHANGED <<period, factors, secrets, codes, pending, credentials, replaced, redeemed, passed>>

-----------------------------------------------------------------------------
\* verify_totp_code up to totp_factor_for_user's answer.
VerifyTotp(c, u) ==
    /\ Calling(c, "idle")
    /\ \E f \in FirstWithSecret(u) : Proceed(c, "totp", u, f, Absent)
    /\ OnlyCall

\* A variant with a fault: the window is doubled at its old end.
PeriodsTooMany == (period - 2 * SkewSteps - 1)..(period + SkewSteps)

\* verify_code_at's candidates: min_counter saturates at 0.
Periods == {n \in Nat : period <= n + SkewSteps /\ n <= period + SkewSteps}

\* ensure_factor_enrolled
Enrolled(u, type) == \E i \in DOMAIN factors[u] : factors[u][i] = type

\* begin_factor_challenge and verify_factor_challenge: verify_challenge reads the clock. The code is
\* one of the factor's secret, for any of the counters, or wrong.
CheckTotp(c) ==
    /\ Calling(c, "totp")
    /\ \E n \in Counter :
        passed' = IF Enrolled(call[c].person, "Totp") /\ n \in Periods
                  THEN passed \cup {<<<<call[c].factor, n>>, period>>} ELSE passed
    /\ Return(c)
    /\ UNCHANGED <<period, factors, secrets, codes, pending, asked, credentials, owner, replaced, redeemed>>

PeriodEnds ==
    /\ period < MaxPeriod /\ period' = period + 1
    /\ UNCHANGED <<factors, secrets, codes, pending, asked, credentials, call, owner, replaced,
                   redeemed, passed>>

FactorsNext ==
    \/ PeriodEnds
    \/ \E u \in Person, x \in Challenge : BeginRegistration(u, x)
    \/ \E c \in Caller :
        \/ \E u \in Person :
            \/ Generate(c, u)
            \/ Regenerate(c, u)
            \/ EnrollTotp(c, u)
            \/ VerifyTotp(c, u)
            \/ BeginAuthentication(c, u)
            \/ \E k \in Code : VerifyRecoveryCode(c, u, k)
            \/ \E x \in Challenge : RegisterPasskey(c, u, x)
        \/ StoreCodes(c)
        \/ Redeem(c)
        \/ InsertSecret(c)
        \/ CheckTotp(c)
        \/ EnrollPasskeyFactor(c)
        \/ StoreCredential(c)
        \/ StoreAuthentication(c)

FactorsSpec == FactorsInit /\ [][FactorsNext]_factorVars

-----------------------------------------------------------------------------
(* A recovery code is redeemed at most once, and only by the user it was   *)
(* handed out to, although verify_recovery_code finds the factor under one *)
(* lock and marks the code under another.                                  *)
RedeemedOnce ==
    /\ \A i \in DOMAIN redeemed : owner[redeemed[i][2]] = redeemed[i][1]
    /\ \A i, j \in DOMAIN redeemed : redeemed[i][2] = redeemed[j][2] => i = j

(* Once a newer batch has replaced a batch of its factor, no code of the   *)
(* old one is accepted, also by a verification that was under way.         *)
ReplacedCodesDead ==
    [][\A i \in DOMAIN redeemed' :
        i \notin DOMAIN redeemed => redeemed'[i][2] \notin replaced]_factorVars

(* A registration challenge makes at most one passkey, of the user it was  *)
(* issued to, whoever else presented it and however many registrations     *)
(* were under way with it.                                                 *)
OneCredentialPerChallenge ==
    /\ \A i \in DOMAIN credentials : owner[credentials[i][2]] = credentials[i][1]
    /\ \A i, j \in DOMAIN credentials : credentials[i][2] = credentials[j][2] => i = j

(* A TOTP code can be accepted more than once: nothing records that it was *)
(* used, and verifications overlap. Between its first and its last         *)
(* acceptance lie at most twice the skew, whichever lock-to-lock delay a   *)
(* verification had and in whichever period it began.                      *)
TotpCodesExpire ==
    \A p, q \in passed : p[1] = q[1] => q[2] - p[2] <= 2 * SkewSteps
=============================================================================

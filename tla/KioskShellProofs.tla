-------------------------- MODULE KioskShellProofs --------------------------
(***************************************************************************)
(* What costs a kiosk its pairing, for any number of kiosks, pairings,     *)
(* accidents and changes: proof that nothing does but IDEN's having        *)
(* stopped accepting a secret this device was given.                       *)
(*                                                                         *)
(* The device concludes it from a 401, and it may be from a 401 to a token *)
(* of a pairing it no longer has.  The invariant says what each answer     *)
(* under way proves: a refused secret was one of its own (Answers); a      *)
(* token was issued to one of its own (Tokens); and a second try is made   *)
(* only after a token was refused, for which a loss of tokens is spent,    *)
(* so that the token of the second try is of the epoch in force (Second).  *)
(***************************************************************************)
EXTENDS KioskShell, TLAPS

\* A secret the device was given, and IDEN's count has reached or passed.
Given(c) == c \in Kiosks \X Nat /\ c[2] <= secret[c[1]]

\* A token issued to a kiosk the device was, in this epoch or an earlier one.
Issued(t) ==
    /\ t \in Token
    /\ t[2] <= epoch[t[1]]
    /\ \E c \in held : c[1] = t[1]

\* IDEN has stopped accepting a secret the device was given.
Refusal == \E c \in held : ~Accepted(c)

\* A pair() call, and what it has been answered so far.
PairCalls == [mine : BOOLEAN, kiosk : Kiosks, at : {"iden", "page"},
              reply : (Kiosks \X Nat) \cup {None, Refused}]

Shapes ==
    /\ secret \in [Kiosks -> Nat]
    /\ epoch \in [Kiosks -> {0, 1}]
    /\ pairs \subseteq PairCalls
    /\ call = [at |-> call.at, try |-> call.try, using |-> call.using, reply |-> call.reply]
    /\ call.at \in {"off", "token", "call"} /\ call.try \in {0, 1}
    /\ call.using \in IF call.at = "off" THEN {None} ELSE Token
    /\ call.reply \in IF call.at = "token" THEN Token \cup {None, Refused}
                                            ELSE Settings \cup {None, Refused}
    /\ cred \in (Kiosks \X Nat) \cup {None}
    /\ tok \in Token \cup {None}

\* Every secret is one IDEN has made, whoever has it by now.
Secrets ==
    /\ \A c \in held : Given(c)
    /\ \A p \in pairs : p.reply \notin {None, Refused} => Given(p.reply)
    /\ cred # None => cred \in held

\* What the tokens are, and what the answers say.
Tokens ==
    /\ tok # None => Issued(tok)
    /\ call.at = "call" => Issued(call.using)
    /\ (call.at = "token" /\ call.reply \notin {None, Refused}) =>
           /\ Issued(call.reply)
           /\ call.reply[1] = call.using[1]

Answers ==
    /\ call.at = "token" =>
           /\ call.using \in held
           /\ call.reply = Refused => ~Accepted(call.using)
    /\ (call.at = "call" /\ call.reply = Refused) => ~Honoured(call.using)

\* Tokens are lost by one kiosk at most.
OneLoss == \A j, k \in Kiosks : (epoch[j] = 1 /\ epoch[k] = 1) => j = k

\* The second try follows a refused token: of a kiosk IDEN refuses, or the one
\* loss has been, and what the second try uses is newer.
Second ==
    call.try = 1 =>
        \/ Refusal
        \/ /\ \E k \in Kiosks : epoch[k] = 1
           /\ call.at = "call" => call.using[2] = epoch[call.using[1]]
           /\ (call.at = "token" /\ call.reply \notin {None, Refused}) =>
                  call.reply[2] = epoch[call.reply[1]]

IInv == Shapes /\ Secrets /\ Tokens /\ Answers /\ OneLoss /\ Second

-----------------------------------------------------------------------------
(* What only grows.                                                        *)

Grows ==
    /\ gone \subseteq gone'
    /\ held \subseteq held'
    /\ \A k \in Kiosks : secret[k] <= secret'[k]
    /\ \A k \in Kiosks : epoch[k] <= epoch'[k]

\* No step un-revokes a kiosk, takes a secret's number back, or brings an epoch
\* of tokens back (IdenPairs, OtherPairs, Revoke, RevokeTokens).
LEMMA EveryStepGrows == Shapes /\ [Next]_vars => Grows
  <1> SUFFICES ASSUME Shapes, [Next]_vars
               PROVE  Grows
    OBVIOUS
  <1>0. secret \in [Kiosks -> Nat] /\ epoch \in [Kiosks -> {0, 1}]
    BY DEF Shapes
  <1>1. CASE UNCHANGED <<secret, gone, epoch, held>>
    BY <1>0, <1>1 DEF Grows
  <1>2. ASSUME NEW c \in pairs, IdenPairs(c)
        PROVE  Grows
    BY <1>0, <1>2 DEF IdenPairs, Grows, Shapes
  <1>3. ASSUME NEW c \in pairs, PairResumes(c)
        PROVE  Grows
    BY <1>0, <1>3 DEF PairResumes, Grows, iden
  <1>4. ASSUME NEW k \in Kiosks, OtherPairs(k) \/ Revoke(k) \/ RevokeTokens(k)
        PROVE  Grows
    BY <1>0, <1>4 DEF OtherPairs, Revoke, RevokeTokens, Grows
  <1>5. CASE \/ Ask \/ \E s \in polls : Land(s) \/ PollFails(s)
             \/ LongPress \/ MaintenanceButton
             \/ \E k \in Kiosks : SubmitCode(k) \/ IssueCode(k) \/ SetService(k)
             \/ \E c \in pairs : PairUnanswered(c) \/ PairLands(c) \/ PairFails(c)
    BY <1>1, <1>5 DEF Ask, Land, PollFails, LongPress, MaintenanceButton, SubmitCode,
                      IssueCode, SetService, PairUnanswered, PairLands, PairFails, iden
  <1>6. CASE Beat \/ TokenLapses \/ IdenAnswers \/ TokenLands \/ CallLands \/ CallFails
             \/ Restart
    BY <1>1, <1>6 DEF Beat, TokenLapses, IdenAnswers, TokenLands, CallLands, CallFails,
                      Restart, iden
  <1>7. CASE UNCHANGED vars
    BY <1>1, <1>7 DEF vars
  <1> QED
    BY <1>2, <1>3, <1>4, <1>5, <1>6, <1>7 DEF Next

\* So what is refused stays refused, and what was given or issued stays so.
LEMMA WhatLasts ==
    ASSUME Shapes, Shapes', Grows
    PROVE  /\ \A c : Given(c) => Given(c)'
           /\ \A c : (Given(c) /\ ~Accepted(c)) => ~Accepted(c)'
           /\ \A t : Issued(t) => Issued(t)'
           /\ \A t : (Issued(t) /\ ~Honoured(t)) => ~Honoured(t)'
  <1>0. /\ secret \in [Kiosks -> Nat] /\ epoch \in [Kiosks -> {0, 1}]
        /\ secret' \in [Kiosks -> Nat] /\ epoch' \in [Kiosks -> {0, 1}]
    BY DEF Shapes
  <1>1. ASSUME NEW c, Given(c)
        PROVE  Given(c)'
    BY <1>0, <1>1 DEF Given, Grows
  <1>2. ASSUME NEW c, Given(c), ~Accepted(c)
        PROVE  ~Accepted(c)'
    BY <1>0, <1>2 DEF Given, Accepted, Grows
  <1>3. ASSUME NEW t, Issued(t)
        PROVE  Issued(t)'
    BY <1>0, <1>3 DEF Issued, Token, Grows
  <1>4. ASSUME NEW t, Issued(t), ~Honoured(t)
        PROVE  ~Honoured(t)'
    BY <1>0, <1>4 DEF Issued, Token, Honoured, Grows
  <1> QED
    BY <1>1, <1>2, <1>3, <1>4

\* A refusal is not taken back.
LEMMA RefusalLasts ==
    ASSUME Shapes, Shapes', Secrets, Grows, Refusal
    PROVE  Refusal'
  <1>1. PICK c \in held : ~Accepted(c)
    BY DEF Refusal
  <1>2. Given(c) /\ c \in held'
    BY <1>1 DEF Secrets, Grows
  <1>3. ~Accepted(c)'
    BY <1>1, <1>2, WhatLasts
  <1> QED
    BY <1>2, <1>3 DEF Refusal

\* IDEN refuses a token only of a kiosk it has revoked, or after a loss of tokens.
LEMMA RefusedToken ==
    ASSUME Shapes, Secrets, NEW t, Issued(t), ~Honoured(t)
    PROVE  \/ Refusal
           \/ /\ epoch[t[1]] = 1 /\ t[1] \in Kiosks
              /\ t[2] # epoch[t[1]]
  <1>1. PICK c \in held : c[1] = t[1]
    BY DEF Issued
  <1>2. CASE t[1] \in gone
    BY <1>1, <1>2 DEF Refusal, Accepted
  <1>3. CASE t[1] \notin gone
    <2>1. t[1] \in Kiosks /\ t[2] \in Nat /\ t[2] <= epoch[t[1]] /\ epoch[t[1]] # t[2]
      BY <1>3 DEF Issued, Token, Honoured
    <2>2. epoch[t[1]] \in {0, 1}
      BY <2>1 DEF Shapes
    <2> QED
      BY <2>1, <2>2
  <1> QED
    BY <1>2, <1>3

-----------------------------------------------------------------------------
(* Shapes.                                                                 *)

\* Nothing is paired, asked or held at first.
LEMMA InitIInv == Init => IInv
  <1> SUFFICES ASSUME Init
               PROVE  IInv
    OBVIOUS
  <1>1. Shapes
    BY DEF Init, Shapes, Idle
  <1>2. Secrets /\ Tokens /\ Answers /\ OneLoss /\ Second
    BY DEF Init, Secrets, Tokens, Answers, OneLoss, Second, Idle
  <1> QED
    BY <1>1, <1>2 DEF IInv

\* The page's steps touch neither the device nor IDEN, and no answer on its way
\* to a pair() call.
LEMMA TurnKeeps ==
    ASSUME Shapes, Secrets, NEW s, NEW r, NEW m, NEW p \in SUBSET pairs, Turn(s, r, m, p)
    PROVE  /\ pairs' \subseteq PairCalls
           /\ \A x \in pairs' : x.reply \notin {None, Refused} => Given(x.reply)
  <1>1. ASSUME NEW x \in pairs'
        PROVE  \E c \in p : /\ x.reply = c.reply
                            /\ x \in PairCalls
    <2>1. PICK c \in p : x = c \/ x = [c EXCEPT !.mine = FALSE]
      BY <1>1 DEF Turn
    <2>2. c \in PairCalls
      BY DEF Shapes
    <2> QED
      BY <2>1, <2>2 DEF PairCalls
  <1> QED
    BY <1>1 DEF Secrets

\* Every step keeps the shapes.
LEMMA NextShapes == Shapes /\ Secrets /\ [Next]_vars => Shapes'
  <1> SUFFICES ASSUME Shapes, Secrets, [Next]_vars
               PROVE  Shapes'
    OBVIOUS
  <1> USE ShellAssumption
  <1>1. CASE UNCHANGED <<pairs, cred, tok, call, secret, epoch>>
    BY <1>1 DEF Shapes
  <1>2. CASE Ask \/ \E k \in Kiosks : IssueCode(k) \/ Revoke(k) \/ SetService(k)
    BY <1>1, <1>2 DEF Ask, IssueCode, Revoke, SetService, device, page, iden
  <1>3. ASSUME NEW s \in polls, Land(s) \/ PollFails(s)
        PROVE  Shapes'
    BY <1>3, TurnKeeps DEF Land, PollFails, device, iden, Shapes
  <1>4. CASE LongPress \/ MaintenanceButton
    BY <1>4, TurnKeeps DEF LongPress, MaintenanceButton, device, iden, Shapes
  <1>5. ASSUME NEW k \in Kiosks, SubmitCode(k)
        PROVE  Shapes'
    <2>1. [mine |-> TRUE, kiosk |-> k, at |-> "iden", reply |-> None] \in PairCalls
      BY DEF PairCalls
    <2> HIDE ShellAssumption
    <2> QED
      BY <1>5, <2>1 DEF SubmitCode, device, iden, Shapes
  <1>6. ASSUME NEW c \in pairs, IdenPairs(c)
        PROVE  Shapes'
    <2>1. c \in PairCalls
      BY DEF Shapes
    <2> QED
      BY <1>6, <2>1 DEF IdenPairs, device, Shapes, PairCalls
  <1>7. ASSUME NEW c \in pairs, PairResumes(c)
        PROVE  Shapes'
    <2>1. c \in PairCalls /\ c.reply \in (Kiosks \X Nat) \cup {Refused}
      BY <1>7 DEF PairResumes, Shapes, PairCalls
    <2>2. pairs' \subseteq PairCalls
      BY <1>7, <2>1 DEF PairResumes, Relayed, Shapes, PairCalls
    <2> QED
      BY <1>7, <2>1, <2>2 DEF PairResumes, iden, Shapes
  <1>18. ASSUME NEW c \in pairs, PairUnanswered(c)
         PROVE  Shapes'
    <2>1. pairs' \subseteq PairCalls
      BY <1>18 DEF PairUnanswered, Relayed, Shapes, PairCalls
    <2> QED
      BY <1>18, <2>1 DEF PairUnanswered, iden, Shapes
  <1>19. ASSUME NEW c \in pairs, PairLands(c)
         PROVE  Shapes'
    BY <1>19, TurnKeeps DEF PairLands, device, iden, Shapes
  <1>8. ASSUME NEW c \in pairs, PairFails(c)
        PROVE  Shapes'
    BY <1>8 DEF PairFails, device, iden, Shapes
  <1>9. CASE Beat
    BY <1>9 DEF Beat, Sends, Waits, Idle, page, iden, Shapes, Token
  <1>10. CASE TokenLapses
    BY <1>10 DEF TokenLapses, page, iden, Shapes
  <1>11. CASE IdenAnswers
    <2> DEFINE k == call.using[1]
    <2>1. /\ UNCHANGED <<pairs, cred, tok, secret, epoch>>
          /\ call.at \in {"token", "call"}
          /\ call' = [call EXCEPT !.reply = call'.reply]
      BY <1>11 DEF IdenAnswers, page, iden, Shapes
    <2>2. k \in Kiosks /\ epoch[k] \in Nat
      BY <2>1 DEF Shapes, Token
    <2>3. call'.reply \in IF call.at = "token" THEN Token \cup {None, Refused}
                                              ELSE Settings \cup {None, Refused}
      <3> HIDE DEF k
      <3>1. CASE call.at = "token"
        BY <1>11, <2>2, <3>1 DEF IdenAnswers, Shapes, Token, k
      <3>2. CASE call.at = "call"
        <4> DEFINE b == k \in service
        <4>1. b \in BOOLEAN
          OBVIOUS
        <4>2. call'.reply = Refused \/ call'.reply = [kiosk |-> k, service |-> b]
          <5>1. call' = [call EXCEPT !.reply = IF Honoured(call.using)
                                               THEN [kiosk |-> k, service |-> b] ELSE Refused]
            BY <1>11, <3>2, Zenon DEF IdenAnswers, k
          <5> HIDE DEF b
          <5>2. call'.reply = IF Honoured(call.using)
                              THEN [kiosk |-> k, service |-> b] ELSE Refused
            BY <5>1 DEF Shapes
          <5> QED
            BY <5>2
        <4> HIDE DEF b
        <4> QED
          BY <2>2, <3>2, <4>1, <4>2 DEF Settings
      <3> QED
        BY <2>1, <3>1, <3>2
    <2> QED
      BY <2>1, <2>3 DEF Shapes
  <1>12. CASE TokenLands
    BY <1>12 DEF TokenLands, Forget, Waits, Idle, page, iden, Shapes
  <1>13. CASE CallLands
    BY <1>13 DEF CallLands, LastTry, Forget, Sends, Waits, Idle, page, iden, Shapes, Token
  <1>14. CASE CallFails
    BY <1>14 DEF CallFails, Idle, page, iden, Shapes
  <1>15. CASE Restart
    BY <1>15 DEF Restart, Turn, Idle, iden, Shapes
  <1>16. ASSUME NEW k \in Kiosks, OtherPairs(k) \/ RevokeTokens(k)
         PROVE  Shapes'
    BY <1>16 DEF OtherPairs, RevokeTokens, page, device, Shapes
  <1>17. CASE UNCHANGED vars
    BY <1>1, <1>17 DEF vars
  <1> QED
    BY <1>2, <1>3, <1>4, <1>5, <1>6, <1>7, <1>8, <1>9, <1>10, <1>11, <1>12, <1>13,
       <1>14, <1>15, <1>16, <1>17, <1>18, <1>19 DEF Next

-----------------------------------------------------------------------------
(* Secrets.                                                                *)

\* A pairing kept or forgotten: what is left is still what IDEN has made.
LEMMA SecretsKept ==
    ASSUME Shapes, Shapes', Secrets, Grows, held' = held, cred' \in {cred, None},
           \A x \in pairs' : x.reply \notin {None, Refused} =>
               Given(x.reply) \/ Given(x.reply)'
    PROVE  Secrets'
  <1>1. \A c : Given(c) => Given(c)'
    BY WhatLasts
  <1> QED
    BY <1>1 DEF Secrets

\* A secret reaches the device only from IDEN, which has made it.
LEMMA NextSecrets == Shapes /\ Shapes' /\ Secrets /\ Grows /\ [Next]_vars => Secrets'
  <1> SUFFICES ASSUME Shapes, Shapes', Secrets, Grows, [Next]_vars
               PROVE  Secrets'
    OBVIOUS
  <1>1. CASE held' = held /\ cred' \in {cred, None} /\ pairs' \subseteq pairs
    BY <1>1, SecretsKept DEF Secrets
  <1>2. CASE Ask \/ \E k \in Kiosks : \/ IssueCode(k) \/ OtherPairs(k) \/ Revoke(k)
                                      \/ SetService(k) \/ RevokeTokens(k)
    BY <1>1, <1>2 DEF Ask, IssueCode, OtherPairs, Revoke, SetService, RevokeTokens,
                      device, page
  <1>3. ASSUME NEW s \in polls, Land(s) \/ PollFails(s)
        PROVE  Secrets'
    BY <1>3, TurnKeeps, SecretsKept DEF Land, PollFails, device
  <1>4. CASE LongPress \/ MaintenanceButton
    BY <1>4, TurnKeeps, SecretsKept DEF LongPress, MaintenanceButton, device
  <1>5. ASSUME NEW k \in Kiosks, SubmitCode(k)
        PROVE  Secrets'
    BY <1>5, SecretsKept DEF SubmitCode, device, Secrets
  <1>6. ASSUME NEW c \in pairs, IdenPairs(c)
        PROVE  Secrets'
    <2>1. c \in PairCalls
      BY DEF Shapes
    <2>2. held' = held /\ cred' = cred
      BY <1>6 DEF IdenPairs, device
    <2>3. ASSUME NEW v, c.kiosk \in codes \ gone, v = <<c.kiosk, secret[c.kiosk] + 1>>
          PROVE  Given(v)'
      <3>1. c.kiosk \in Kiosks /\ secret \in [Kiosks -> Nat]
        BY <2>1 DEF Shapes, PairCalls
      <3>2. secret' = [secret EXCEPT ![c.kiosk] = @ + 1]
        BY <1>6, <2>3 DEF IdenPairs
      <3>3. secret'[c.kiosk] = secret[c.kiosk] + 1 /\ secret[c.kiosk] + 1 \in Nat
        BY <3>1, <3>2
      <3>4. v[1] = c.kiosk /\ v[2] = secret'[c.kiosk] /\ v \in Kiosks \X Nat
        BY <2>3, <3>1, <3>3
      <3> QED
        BY <3>3, <3>4 DEF Given
    <2>4. \A x \in pairs' : \/ x \in pairs \/ x.reply = Refused
                            \/ /\ c.kiosk \in codes \ gone
                               /\ x.reply = <<c.kiosk, secret[c.kiosk] + 1>>
      BY <1>6, <2>1 DEF IdenPairs, PairCalls
    <2>5. ASSUME NEW x \in pairs', x.reply \notin {None, Refused}
          PROVE  Given(x.reply) \/ Given(x.reply)'
      BY <2>3, <2>4, <2>5 DEF Secrets
    <2> QED
      BY <2>2, <2>5, SecretsKept
  <1>7. ASSUME NEW c \in pairs, PairResumes(c)
        PROVE  Secrets'
    <2>1. c.reply # Refused => Given(c.reply)
      BY <1>7 DEF PairResumes, Secrets
    <2>2. \A x \in pairs' : x.reply \notin {None, Refused} => Given(x.reply)
      BY <1>7, <2>1 DEF PairResumes, Relayed, Shapes, PairCalls, Secrets
    <2>3. \A y : Given(y) => Given(y)'
      BY WhatLasts
    <2> QED
      BY <1>7, <2>1, <2>2, <2>3 DEF PairResumes, Secrets
  <1>12. ASSUME NEW c \in pairs, PairUnanswered(c)
         PROVE  Secrets'
    <2>1. \A x \in pairs' : x.reply \notin {None, Refused} => Given(x.reply)
      BY <1>12 DEF PairUnanswered, Relayed, Shapes, PairCalls, Secrets
    <2> QED
      BY <1>12, <2>1, SecretsKept DEF PairUnanswered
  <1>13. ASSUME NEW c \in pairs, PairLands(c)
         PROVE  Secrets'
    BY <1>13, TurnKeeps, SecretsKept DEF PairLands, device
  <1>8. ASSUME NEW c \in pairs, PairFails(c)
        PROVE  Secrets'
    BY <1>1, <1>8 DEF PairFails, device
  <1>9. CASE \/ Beat \/ TokenLapses \/ IdenAnswers \/ TokenLands \/ CallLands \/ CallFails
    BY <1>1, <1>9 DEF Beat, TokenLapses, IdenAnswers, TokenLands, CallLands, CallFails,
                      Forget, page
  <1>10. CASE Restart
    BY <1>10, SecretsKept DEF Restart, Turn
  <1>11. CASE UNCHANGED vars
    BY <1>1, <1>11 DEF vars
  <1> QED
    BY <1>2, <1>3, <1>4, <1>5, <1>6, <1>7, <1>8, <1>9, <1>10, <1>11, <1>12, <1>13 DEF Next

-----------------------------------------------------------------------------
(* Tokens and answers.                                                     *)

\* Only the device's own steps, and IDEN's answer, move its call.
LEMMA WhoMovesTheCall ==
    [Next]_vars => \/ call' \in {call, Idle} /\ tok' \in {tok, None}
                   \/ Beat \/ IdenAnswers \/ TokenLands \/ CallLands
  <1> SUFFICES ASSUME [Next]_vars
               PROVE  \/ call' \in {call, Idle} /\ tok' \in {tok, None}
                      \/ Beat \/ IdenAnswers \/ TokenLands \/ CallLands
    OBVIOUS
  <1>1. CASE \/ Ask \/ \E s \in polls : Land(s) \/ PollFails(s)
             \/ LongPress \/ MaintenanceButton
             \/ \E k \in Kiosks : \/ SubmitCode(k) \/ IssueCode(k) \/ OtherPairs(k)
                                  \/ Revoke(k) \/ SetService(k) \/ RevokeTokens(k)
             \/ \E c \in pairs : IdenPairs(c)
    BY <1>1 DEF Ask, Land, PollFails, LongPress, MaintenanceButton, SubmitCode, IssueCode,
                OtherPairs, Revoke, SetService, RevokeTokens, IdenPairs, device
  <1>2. CASE \E c \in pairs : \/ PairResumes(c) \/ PairUnanswered(c)
                              \/ PairLands(c) \/ PairFails(c)
    BY <1>2 DEF PairResumes, PairUnanswered, PairLands, PairFails, device
  <1>3. CASE TokenLapses \/ CallFails \/ Restart
    BY <1>3 DEF TokenLapses, CallFails, Restart
  <1>4. CASE UNCHANGED vars
    BY <1>4 DEF vars
  <1> QED
    BY <1>1, <1>2, <1>3, <1>4 DEF Next

\* And only a loss of tokens moves the epochs, which happens to nobody twice.
LEMMA WhoMovesTheEpochs ==
    ASSUME Shapes, [Next]_vars
    PROVE  \/ epoch' = epoch
           \/ \E k \in Kiosks : /\ \A j \in Kiosks : epoch[j] = 0
                                /\ epoch' = [epoch EXCEPT ![k] = 1]
  <1>1. CASE \/ Ask \/ \E s \in polls : Land(s) \/ PollFails(s)
             \/ LongPress \/ MaintenanceButton
             \/ \E k \in Kiosks : \/ SubmitCode(k) \/ IssueCode(k) \/ OtherPairs(k)
                                  \/ Revoke(k) \/ SetService(k)
             \/ \E c \in pairs : IdenPairs(c)
    BY <1>1 DEF Ask, Land, PollFails, LongPress, MaintenanceButton, SubmitCode, IssueCode,
                OtherPairs, Revoke, SetService, IdenPairs, iden
  <1>2. CASE \E c \in pairs : \/ PairResumes(c) \/ PairUnanswered(c)
                              \/ PairLands(c) \/ PairFails(c)
    BY <1>2 DEF PairResumes, PairUnanswered, PairLands, PairFails, iden
  <1>3. CASE Beat \/ TokenLapses \/ IdenAnswers \/ TokenLands \/ CallLands \/ CallFails
             \/ Restart
    BY <1>3 DEF Beat, TokenLapses, IdenAnswers, TokenLands, CallLands, CallFails, Restart,
                iden
  <1>4. ASSUME NEW k \in Kiosks, RevokeTokens(k)
        PROVE  /\ \A j \in Kiosks : epoch[j] = 0
               /\ epoch' = [epoch EXCEPT ![k] = 1]
    <2>1. /\ \A j \in Kiosks : epoch[j] = 0
          /\ epoch' = [epoch EXCEPT ![k] = epoch[k] + 1]
      BY <1>4 DEF RevokeTokens
    <2>2. epoch[k] + 1 = 1
      BY <2>1
    <2> QED
      BY <2>1, <2>2
  <1>5. CASE UNCHANGED vars
    BY <1>5 DEF vars
  <1> QED
    BY <1>1, <1>2, <1>3, <1>4, <1>5 DEF Next

\* Every token in use was issued to a kiosk this device was paired as.
LEMMA NextTokens ==
    ASSUME Shapes, Shapes', Secrets, Tokens, Answers, Grows, [Next]_vars
    PROVE  Tokens'
  <1> USE ShellAssumption
  <1>0. \A t : Issued(t) => Issued(t)'
    BY WhatLasts
  <1>1. CASE call' \in {call, Idle} /\ tok' \in {tok, None}
    BY <1>0, <1>1 DEF Tokens, Idle
  <1>2. CASE Beat
    BY <1>0, <1>2 DEF Beat, Sends, Waits, Idle, Tokens
  <1>3. CASE IdenAnswers
    <2>1. CASE call.at = "token"
      <3>1. call' = [call EXCEPT !.reply = IF Accepted(call.using)
                        THEN <<call.using[1], epoch[call.using[1]]>> ELSE Refused]
        BY <1>3, <2>1 DEF IdenAnswers
      <3>2. /\ call'.at = "token" /\ call'.using = call.using
            /\ call'.reply = IF Accepted(call.using)
                             THEN <<call.using[1], epoch[call.using[1]]>> ELSE Refused
        BY <2>1, <3>1 DEF Shapes
      <3>3. Issued(<<call.using[1], epoch[call.using[1]]>>)
        BY <2>1 DEF Issued, Token, Shapes, Answers
      <3>4. tok' = tok
        BY <1>3 DEF IdenAnswers
      <3> QED
        BY <1>0, <3>2, <3>3, <3>4 DEF Tokens
    <2>2. CASE call.at = "call"
      <3>1. call'.at = "call" /\ call'.using = call.using /\ tok' = tok
        BY <1>3, <2>2 DEF IdenAnswers, Shapes
      <3> QED
        BY <1>0, <2>2, <3>1 DEF Tokens
    <2> QED
      BY <1>3, <2>1, <2>2 DEF IdenAnswers
  <1>4. CASE TokenLands
    BY <1>0, <1>4 DEF TokenLands, Forget, Waits, Idle, Tokens
  <1>5. CASE CallLands
    BY <1>0, <1>5 DEF CallLands, Forget, Sends, Waits, Idle, Tokens
  <1> QED
    BY <1>1, <1>2, <1>3, <1>4, <1>5, WhoMovesTheCall

\* A 401 under way tells of a secret or a token that is no good any more.
LEMMA NextAnswers ==
    ASSUME Shapes, Shapes', Secrets, Tokens, Answers, Grows, [Next]_vars
    PROVE  Answers'
  <1> USE ShellAssumption
  <1>0. /\ held \subseteq held'
        /\ \A c \in held : Given(c)
        /\ \A c : (Given(c) /\ ~Accepted(c)) => ~Accepted(c)'
        /\ \A t : (Issued(t) /\ ~Honoured(t)) => ~Honoured(t)'
    BY WhatLasts DEF Grows, Secrets
  <1>1. CASE call' \in {call, Idle}
    BY <1>0, <1>1 DEF Answers, Tokens, Idle
  <1>2. CASE Beat
    BY <1>0, <1>2 DEF Beat, Sends, Waits, Idle, Answers, Secrets
  <1>3. CASE IdenAnswers
    <2>1. UNCHANGED <<gone, secret, epoch>>
      BY <1>3 DEF IdenAnswers, iden
    <2>2. CASE call.at = "token"
      <3>1. call' = [call EXCEPT !.reply = IF Accepted(call.using)
                        THEN <<call.using[1], epoch[call.using[1]]>> ELSE Refused]
        BY <1>3, <2>2 DEF IdenAnswers
      <3>2. <<call.using[1], epoch[call.using[1]]>> \in Token
        BY <2>2 DEF Shapes, Token
      <3>3. /\ call'.at = "token" /\ call'.using = call.using
            /\ call'.reply = Refused => ~Accepted(call.using)
        BY <2>2, <3>1, <3>2 DEF Shapes
      <3> QED
        BY <1>0, <2>2, <3>3 DEF Answers
    <2>3. CASE call.at = "call"
      <3> DEFINE k == call.using[1]
                 b == k \in service
      <3>1. call' = [call EXCEPT !.reply = IF Honoured(call.using)
                        THEN [kiosk |-> k, service |-> b] ELSE Refused]
        BY <1>3, <2>3, Zenon DEF IdenAnswers
      <3>2. b \in BOOLEAN
        OBVIOUS
      <3>3. k \in Kiosks
        BY <2>3 DEF Shapes, Token
      <3> HIDE DEF b, k
      <3>4. [kiosk |-> k, service |-> b] # Refused
        BY <3>2, <3>3 DEF Settings
      <3>5. /\ call'.at = "call" /\ call'.using = call.using
            /\ call'.reply = Refused => ~Honoured(call.using)
        BY <2>3, <3>1, <3>4 DEF Shapes
      <3> QED
        BY <1>0, <2>3, <3>5 DEF Answers, Tokens
    <2> QED
      BY <1>3, <2>2, <2>3 DEF IdenAnswers
  <1>4. CASE TokenLands
    BY <1>4 DEF TokenLands, Forget, Waits, Idle, Answers
  <1>5. CASE CallLands
    BY <1>0, <1>5 DEF CallLands, Forget, Sends, Waits, Idle, Answers, Secrets
  <1> QED
    BY <1>1, <1>2, <1>3, <1>4, <1>5, WhoMovesTheCall

-----------------------------------------------------------------------------
(* The second try.                                                         *)

\* Tokens are lost once.
LEMMA NextOneLoss == Shapes /\ OneLoss /\ [Next]_vars => OneLoss'
  BY WhoMovesTheEpochs DEF OneLoss, Shapes

\* What the second try is made with is newer than the loss that led to it.
LEMMA NextSecond ==
    ASSUME Shapes, Shapes', Secrets, Tokens, Answers, OneLoss, Second, Grows, [Next]_vars
    PROVE  Second'
  <1> USE ShellAssumption
  <1>1. SUFFICES ASSUME call'.try = 1, ~Refusal'
                 PROVE  /\ \E k \in Kiosks : epoch'[k] = 1
                        /\ call'.at = "call" => call'.using[2] = epoch'[call'.using[1]]
                        /\ (call'.at = "token" /\ call'.reply \notin {None, Refused}) =>
                               call'.reply[2] = epoch'[call'.reply[1]]
    BY DEF Second
  <1>2. ~Refusal
    BY <1>1, RefusalLasts
  <1>3. (\E k \in Kiosks : epoch[k] = 1) => epoch' = epoch
    BY WhoMovesTheEpochs
  <1>4. CASE call' \in {call, Idle}
    BY <1>1, <1>2, <1>3, <1>4 DEF Second, Idle
  <1>5. CASE Beat
    BY <1>1, <1>5 DEF Beat, Sends, Waits, Idle
  <1>6. CASE IdenAnswers
    <2>1. call'.try = call.try /\ call'.at = call.at /\ call'.using = call.using
      BY <1>6 DEF IdenAnswers, Shapes
    <2>2. /\ \E k \in Kiosks : epoch[k] = 1
          /\ call.at = "call" => call.using[2] = epoch[call.using[1]]
      BY <1>1, <1>2, <2>1 DEF Second
    <2>3. CASE call.at = "token"
      <3>1. call' = [call EXCEPT !.reply = IF Accepted(call.using)
                        THEN <<call.using[1], epoch[call.using[1]]>> ELSE Refused]
        BY <1>6, <2>3 DEF IdenAnswers
      <3>2. call'.reply \in {Refused, <<call.using[1], epoch[call.using[1]]>>}
        BY <3>1 DEF Shapes
      <3> QED
        BY <1>3, <2>1, <2>2, <2>3, <3>2
    <2>4. CASE call.at = "call"
      BY <1>3, <2>1, <2>2, <2>4
    <2> QED
      BY <1>6, <2>3, <2>4 DEF IdenAnswers
  <1>7. CASE TokenLands
    BY <1>1, <1>2, <1>3, <1>7 DEF TokenLands, Forget, Waits, Idle, Second
  <1>8. CASE CallLands
    <2>1. call.at = "call" /\ call.reply = Refused
      BY <1>1, <1>8 DEF CallLands, Forget, Idle
    <2>2. Issued(call.using) /\ ~Honoured(call.using)
      BY <2>1 DEF Tokens, Answers
    <2>3. \E k \in Kiosks : epoch[k] = 1
      BY <1>2, <2>2, RefusedToken
    <2>4. call'.at # "call" /\ call'.reply = None
      BY <1>1, <1>8, <2>1 DEF CallLands, Forget, Sends, Waits, Idle
    <2> QED
      BY <1>3, <2>3, <2>4
  <1> QED
    BY <1>4, <1>5, <1>6, <1>7, <1>8, WhoMovesTheCall

\* The invariant is inductive.
LEMMA NextIInv == IInv /\ [Next]_vars => IInv'
  BY NextShapes, EveryStepGrows, NextSecrets, NextTokens, NextAnswers, NextOneLoss, NextSecond
     DEF IInv

-----------------------------------------------------------------------------
(* Accidents forget nothing.                                               *)

\* Credentials go when a secret was refused, which was one of this device's, or
\* when the second try's token was, which no loss of tokens explains any more.
LEMMA OnlyRefusalsForget ==
    ASSUME IInv, [Next]_vars, cred # None, cred' = None
    PROVE  Refusal
  <1> USE DEF IInv
  <1>1. TokenLands \/ CallLands
    <2>1. ASSUME NEW c \in pairs, PairResumes(c)
          PROVE  cred' # None
      BY <2>1 DEF PairResumes
    <2>2. CASE \/ Ask \/ \E s \in polls : Land(s) \/ PollFails(s)
               \/ LongPress \/ MaintenanceButton
               \/ \E k \in Kiosks : \/ SubmitCode(k) \/ IssueCode(k) \/ OtherPairs(k)
                                    \/ Revoke(k) \/ SetService(k) \/ RevokeTokens(k)
               \/ \E c \in pairs : IdenPairs(c)
      BY <2>2 DEF Ask, Land, PollFails, LongPress, MaintenanceButton, SubmitCode, IssueCode,
                  OtherPairs, Revoke, SetService, RevokeTokens, IdenPairs, device
    <2>3. CASE \/ \E c \in pairs : PairUnanswered(c) \/ PairLands(c) \/ PairFails(c)
               \/ Beat \/ TokenLapses \/ IdenAnswers \/ CallFails \/ Restart
      BY <2>3 DEF PairUnanswered, PairLands, PairFails, device, Beat, TokenLapses, IdenAnswers, CallFails, Restart
    <2>4. CASE UNCHANGED vars
      BY <2>4 DEF vars
    <2> QED
      BY <2>1, <2>2, <2>3, <2>4 DEF Next
  <1>2. CASE TokenLands
    <2>1. call.at = "token" /\ call.reply = Refused
      BY <1>2 DEF TokenLands
    <2> QED
      BY <2>1 DEF Answers, Refusal
  <1>3. CASE CallLands
    <2>1. call.at = "call" /\ call.reply = Refused /\ call.try = 1
      BY <1>3 DEF CallLands, LastTry
    <2>2. Issued(call.using) /\ ~Honoured(call.using)
      BY <2>1 DEF Tokens, Answers
    <2> QED
      BY <2>1, <2>2, RefusedToken DEF Second
  <1> QED
    BY <1>1, <1>2, <1>3

\* However many answers are lost, servers restarted, pairings made again and
\* tokens aged, and although one kiosk's tokens are lost, a device keeps its
\* pairing until IDEN has stopped accepting a secret it was given.
THEOREM PairingsSurviveAccidents == Spec => AccidentsForgetNothing
  <1>1. Spec => []IInv
    BY InitIInv, NextIInv, PTL DEF Spec
  <1>2. IInv /\ [Next]_vars =>
            [(cred # None /\ cred' = None) => \E c \in held : ~Accepted(c)]_vars
    BY OnlyRefusalsForget DEF Refusal
  <1> QED
    BY <1>1, <1>2, PTL DEF Spec, AccidentsForgetNothing
=============================================================================

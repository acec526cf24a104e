--------------------------- MODULE SessionProofs ---------------------------
(***************************************************************************)
(* Proofs about Session, for every set of digits, every length of the PIN  *)
(* and any number of logins under way.                                     *)
(*                                                                         *)
(* The two safety properties follow from one inductive invariant.  While   *)
(* registerButtonTaped runs, nobody is registered yet and what was noted   *)
(* of the form still describes it (SavingInv); after that the stored user  *)
(* and the PIN agree.  Whatever login screen waits for, a block or an      *)
(* answer, was asked for after an authorization (LoginInv).                *)
(***************************************************************************)
EXTENDS Session, SequenceTheorems, TLAPS

SavingInv ==
    /\ saving # "no" => screen = "registration"
    /\ saving # "no" /\ ~unchecked => Valid(form)
    /\ saving = "save" /\ ~unchecked /\ ~addFailed => pin = form.pin

LoginInv ==
    /\ (screen = "registration") <=> (userData = None)
    /\ (delayed > 0 \/ requests > 0 \/ screen = "main") => authorized

LoginsBounded ==
    /\ delayed \in 0..MaxLogins
    /\ requests \in 0..MaxLogins
    /\ delayed + requests <= MaxLogins

SessionInv == TypeOK /\ LoginsBounded /\ SavingInv /\ LoginInv /\ RegisteredUserHasPin

\* A PIN as it is typed is a sequence of at most PinLength digits.
LEMMA PinIsSeq ==
    /\ Pin \subseteq Seq(Digit)
    /\ \A s \in Seq(Digit) : s \in Pin <=> Len(s) <= PinLength
<1>1. \A s \in Pin : s \in Seq(Digit) /\ Len(s) <= PinLength
  BY BoundsAssumption DEF Pin
<1>2. ASSUME NEW s \in Seq(Digit), Len(s) <= PinLength PROVE s \in Pin
  <2>1. Len(s) \in 0..PinLength /\ s \in [1..Len(s) -> Digit]
    BY <1>2, BoundsAssumption
  <2> QED BY <2>1 DEF Pin
<1> QED BY <1>1, <1>2

\* None is nobody's PIN, and the empty field is one.
LEMMA NoneIsNoPin == None \notin Pin /\ <<>> \in Pin
<1>1. None \notin Pin
  BY PinIsSeq, NoneAssumption
<1>2. <<>> \in Seq(Digit) /\ Len(<<>>) <= PinLength
  BY EmptySeq, BoundsAssumption
<1> QED BY <1>1, <1>2, PinIsSeq

\* The fields of a fresh RegistrationMenu are fields it can have.
LEMMA EmptyFormIsForm == EmptyForm \in Form
BY NoneIsNoPin DEF EmptyForm, Form

\* The numpad holds at most PinLength digits after a tap on a digit ...
LEMMA AppendPin ==
    ASSUME NEW s \in Pin, NEW d \in Digit, Len(s) < PinLength
    PROVE  Append(s, d) \in Pin
<1>1. Append(s, d) \in Seq(Digit) /\ Len(Append(s, d)) = Len(s) + 1
  BY PinIsSeq
<1>2. Len(s) + 1 <= PinLength
  BY PinIsSeq, BoundsAssumption
<1> QED BY <1>1, <1>2, PinIsSeq

\* ... and after a tap on the clear button.
LEMMA ClearPin ==
    ASSUME NEW s \in Pin, s # <<>>
    PROVE  SubSeq(s, 1, Len(s) - 1) \in Pin
<1>1. s \in Seq(Digit) /\ Len(s) \in Nat \ {0} /\ Len(s) <= PinLength
  BY PinIsSeq
<1>2. \A i \in 1..Len(s) - 1 : s[i] \in Digit
  BY <1>1, ElementOfSeq
<1>3. SubSeq(s, 1, Len(s) - 1) \in Seq(Digit)
      /\ Len(SubSeq(s, 1, Len(s) - 1)) <= Len(s)
  <2> DEFINE last == Len(s) - 1
  <2>1. last \in Int /\ \A i \in 1..last : s[i] \in Digit
    BY <1>1, <1>2
  <2> HIDE DEF last
  <2>2. /\ SubSeq(s, 1, last) \in Seq(Digit)
        /\ Len(SubSeq(s, 1, last)) = IF 1 <= last THEN last - 1 + 1 ELSE 0
    BY <2>1, SubSeqProperties
  <2> QED BY <1>1, <2>1, <2>2 DEF last
<1>4. Len(SubSeq(s, 1, Len(s) - 1)) <= PinLength
  BY <1>1, <1>3, BoundsAssumption
<1> QED BY <1>3, <1>4, PinIsSeq

-----------------------------------------------------------------------------
\* An app that was never used: nobody registered, no PIN, no login under way.
LEMMA InitSession == Init => SessionInv
<1> SUFFICES ASSUME Init PROVE SessionInv
  OBVIOUS
<1>0. LoginsBounded
  BY BoundsAssumption DEF Init, LoginsBounded
<1>1. TypeOK
  BY <1>0, NoneIsNoPin, EmptyFormIsForm DEF Init, TypeOK, LoginsBounded
<1>2. SavingInv /\ LoginInv /\ RegisteredUserHasPin
  BY BoundsAssumption DEF Init, SavingInv, LoginInv, RegisteredUserHasPin
<1> QED BY <1>0, <1>1, <1>2 DEF SessionInv

\* What every action leaves of the invariant when it changes only the screen
\* of the login, and not who is registered.
LEMMA LoginStep ==
    ASSUME SessionInv, UNCHANGED <<storedVars, formVars, savedVars>>,
           input' \in Pin, card' \in BOOLEAN, covered' \in BOOLEAN,
           delayed' \in 0..MaxLogins, requests' \in 0..MaxLogins,
           authorized' \in BOOLEAN, screen' = screen
    PROVE  /\ TypeOK' /\ SavingInv' /\ RegisteredUserHasPin'
           /\ (screen' = "registration") <=> (userData' = None)
<1> USE DEF storedVars, formVars, savedVars
<1>1. TypeOK'
  BY DEF SessionInv, TypeOK
<1>2. SavingInv'
  BY DEF SessionInv, SavingInv, Valid
<1>3. RegisteredUserHasPin'
  BY DEF SessionInv, RegisteredUserHasPin
<1>4. (screen' = "registration") <=> (userData' = None)
  BY DEF SessionInv, LoginInv
<1> QED BY <1>1, <1>2, <1>3, <1>4

\* One step per action; TypeOK apart from the arithmetic of LoginsBounded.
LEMMA StepSession == SessionInv /\ [Next]_vars => SessionInv'
<1> SUFFICES ASSUME SessionInv, [Next]_vars PROVE SessionInv'
  OBVIOUS
<1> USE DEF storedVars, formVars, loginVars, savedVars
<1>0. TypeOK /\ LoginsBounded /\ SavingInv /\ LoginInv /\ RegisteredUserHasPin
  BY DEF SessionInv
<1>1. CASE Edit
  <2>1. TypeOK' /\ LoginsBounded'
    BY <1>0, <1>1 DEF Edit, TypeOK, LoginsBounded
  <2>2. SavingInv' /\ LoginInv' /\ RegisteredUserHasPin'
    BY <1>0, <1>1 DEF Edit, Registering, SavingInv, LoginInv, RegisteredUserHasPin
  <2> QED BY <2>1, <2>2 DEF SessionInv
<1>2. CASE EndEditing
  <2>1. TypeOK' /\ LoginsBounded'
    BY <1>0, <1>2 DEF EndEditing, TypeOK, Valid, LoginsBounded
  <2>2. SavingInv' /\ LoginInv' /\ RegisteredUserHasPin'
    BY <1>0, <1>2 DEF EndEditing, Registering, SavingInv, LoginInv, RegisteredUserHasPin, Valid
  <2> QED BY <2>1, <2>2 DEF SessionInv
<1>3. CASE RegisterButtonTaped
  <2>1. TypeOK' /\ LoginsBounded'
    BY <1>0, <1>3 DEF RegisterButtonTaped, TypeOK, Valid, LoginsBounded
  <2>2. saving' = "save" => ~Valid(form)
    <3>1. Valid(form) => form.pin # <<>> /\ form.others # "empty"
      BY EmptySeq, BoundsAssumption DEF Valid
    <3> QED BY <3>1, <1>3 DEF RegisterButtonTaped
  <2>3. SavingInv'
    BY <1>0, <1>3, <2>2 DEF RegisterButtonTaped, Registering, SavingInv, Valid
  <2>4. LoginInv' /\ RegisteredUserHasPin'
    BY <1>0, <1>3 DEF RegisterButtonTaped, Registering, LoginInv, RegisteredUserHasPin
  <2> QED BY <2>1, <2>3, <2>4 DEF SessionInv
<1>4. CASE DeletePin
  <2>1. TypeOK' /\ LoginsBounded'
    BY <1>0, <1>4 DEF DeletePin, TypeOK, LoginsBounded
  <2>2. SavingInv' /\ LoginInv' /\ RegisteredUserHasPin'
    BY <1>0, <1>4 DEF DeletePin, SavingInv, LoginInv, RegisteredUserHasPin, Valid
  <2> QED BY <2>1, <2>2 DEF SessionInv
<1>5. CASE AddPin
  <2>1. TypeOK' /\ LoginsBounded'
    BY <1>0, <1>5 DEF AddPin, TypeOK, Form, LoginsBounded
  <2>2. SavingInv' /\ LoginInv' /\ RegisteredUserHasPin'
    BY <1>0, <1>5 DEF AddPin, SavingInv, LoginInv, RegisteredUserHasPin, Valid
  <2> QED BY <2>1, <2>2 DEF SessionInv
<1>6. CASE SaveUserData
  <2>0. LoginsBounded'
    BY <1>0, <1>6, BoundsAssumption DEF SaveUserData, FreshLogin, Form, TypeOK, LoginsBounded
  <2>1. TypeOK'
    BY <1>0, <1>6, <2>0, NoneIsNoPin
       DEF SaveUserData, FreshLogin, Form, TypeOK, LoginsBounded
  <2>2. userData' \in Pin /\ userData' # None
    BY <1>0, <1>6, NoneIsNoPin DEF SaveUserData, TypeOK, Form
  <2>3. SavingInv' /\ LoginInv'
    BY <1>0, <1>6, <2>2 DEF SaveUserData, FreshLogin, SavingInv, LoginInv
  <2>4. RegisteredUserHasPin'
    BY <1>0, <1>6 DEF SaveUserData, SavingInv, RegisteredUserHasPin, Valid
  <2> QED BY <2>0, <2>1, <2>3, <2>4 DEF SessionInv
<1>7. ASSUME NEW digit \in Digit, NumPadTapped(digit) PROVE SessionInv'
  <2>1. input' \in Pin
    <3>1. input \in Pin /\ Len(input) < PinLength
      BY <1>0, <1>7 DEF NumPadTapped, TypeOK
    <3>2. input' \in {Append(input, digit), <<>>}
      BY <1>7 DEF NumPadTapped
    <3> QED BY <3>1, <3>2, AppendPin, NoneIsNoPin
  <2>2. delayed' \in 0..MaxLogins /\ authorized' \in BOOLEAN
    <3>1. UNCHANGED <<delayed, authorized>> \/ GoToMainVC
      BY <1>7 DEF NumPadTapped
    <3>2. delayed' \in 0..MaxLogins
      BY <1>0, <3>1, BoundsAssumption DEF GoToMainVC, TypeOK
    <3>3. authorized' \in BOOLEAN
      BY <1>0, <3>1 DEF GoToMainVC, TypeOK
    <3> QED BY <3>2, <3>3
  <2>3. UNCHANGED <<storedVars, formVars, savedVars, screen, card, requests, covered>>
    BY <1>7 DEF NumPadTapped
  <2>4. (delayed' = delayed /\ authorized' = authorized) \/ authorized' = TRUE
    BY <1>7 DEF NumPadTapped, GoToMainVC
  <2>5. /\ TypeOK' /\ SavingInv' /\ RegisteredUserHasPin'
        /\ (screen' = "registration") <=> (userData' = None)
    BY <1>0, <2>1, <2>2, <2>3, LoginStep DEF TypeOK
  <2>6. LoginsBounded'
    BY <1>0, <1>7, <2>3, BoundsAssumption
       DEF NumPadTapped, GoToMainVC, LoginsBounded, TypeOK
  <2>7. LoginInv'
    BY <1>0, <2>3, <2>4, <2>5 DEF LoginInv
  <2> QED BY <2>5, <2>6, <2>7 DEF SessionInv
<1>8. CASE ClearButtonTapped
  <2>1. input' \in Pin
    BY <1>0, <1>8, ClearPin DEF ClearButtonTapped, TypeOK
  <2>2. UNCHANGED <<storedVars, formVars, savedVars, screen, card, requests,
                    covered, delayed, authorized>>
    BY <1>8 DEF ClearButtonTapped
  <2>3. TypeOK' /\ SavingInv' /\ RegisteredUserHasPin'
    BY <1>0, <2>1, <2>2, LoginStep DEF TypeOK
  <2>4. LoginInv' /\ LoginsBounded'
    BY <1>0, <2>2 DEF LoginInv, LoginsBounded
  <2> QED BY <2>3, <2>4 DEF SessionInv
<1>9. CASE BiometrySucceeds
  <2>1. TypeOK' /\ LoginsBounded'
    BY <1>0, <1>9, BoundsAssumption DEF BiometrySucceeds, GoToMainVC, TypeOK, LoginsBounded
  <2>2. SavingInv' /\ LoginInv' /\ RegisteredUserHasPin'
    BY <1>0, <1>9 DEF BiometrySucceeds, GoToMainVC, SavingInv, LoginInv, RegisteredUserHasPin, Valid
  <2> QED BY <2>1, <2>2 DEF SessionInv
<1>10. CASE OpenCard \/ CloseCard
  <2>1. TypeOK' /\ LoginsBounded'
    BY <1>0, <1>10 DEF OpenCard, CloseCard, TypeOK, LoginsBounded
  <2>2. SavingInv' /\ LoginInv' /\ RegisteredUserHasPin'
    BY <1>0, <1>10 DEF OpenCard, CloseCard, SavingInv, LoginInv, RegisteredUserHasPin, Valid
  <2> QED BY <2>1, <2>2 DEF SessionInv
<1>11. CASE SendLogin
  <2>1. TypeOK' /\ LoginsBounded'
    BY <1>0, <1>11, BoundsAssumption DEF SendLogin, TypeOK, LoginsBounded
  <2>2. SavingInv' /\ LoginInv' /\ RegisteredUserHasPin'
    <3>1. delayed > 0
      BY <1>11 DEF SendLogin
    <3> QED BY <1>0, <1>11, <3>1 DEF SendLogin, SavingInv, LoginInv, RegisteredUserHasPin, Valid
  <2> QED BY <2>1, <2>2 DEF SessionInv
<1>12. CASE LoginAnswered
  <2>0. LoginsBounded'
    BY <1>0, <1>12, BoundsAssumption DEF LoginAnswered, TypeOK, LoginsBounded
  <2>1. TypeOK'
    <3>1. requests' \in 0..MaxLogins /\ delayed' \in 0..MaxLogins
      BY <1>0, <1>12, BoundsAssumption DEF LoginAnswered, TypeOK
    <3>2. screen' \in {"registration", "login", "main"} /\ covered' \in BOOLEAN
      BY <1>0, <1>12 DEF LoginAnswered, TypeOK
    <3>3. input' \in Pin
      BY <1>0, <1>12, NoneIsNoPin DEF LoginAnswered, TypeOK
    <3> QED
      BY <1>0, <1>12, <3>1, <3>2, <3>3
         DEF LoginAnswered, TypeOK, storedVars, formVars, savedVars
  <2>2. requests > 0 /\ requests' = requests - 1 /\ requests \in Int
    BY <1>0, <1>12, BoundsAssumption DEF LoginAnswered, TypeOK
  <2>3. SavingInv' /\ LoginInv' /\ RegisteredUserHasPin'
    BY <1>0, <1>12, <2>2
       DEF LoginAnswered, OnLogin, SavingInv, LoginInv, RegisteredUserHasPin, Valid
  <2> QED BY <2>0, <2>1, <2>3 DEF SessionInv
<1>13. CASE LoginFails
  <2>1. TypeOK' /\ LoginsBounded'
    BY <1>0, <1>13, NoneIsNoPin, BoundsAssumption DEF LoginFails, TypeOK, LoginsBounded
  <2>2. requests > 0 /\ requests' = requests - 1 /\ requests \in Int
    BY <1>0, <1>13, BoundsAssumption DEF LoginFails, TypeOK
  <2>3. SavingInv' /\ LoginInv' /\ RegisteredUserHasPin'
    BY <1>0, <1>13, <2>2 DEF LoginFails, SavingInv, LoginInv, RegisteredUserHasPin, Valid
  <2> QED BY <2>1, <2>3 DEF SessionInv
<1>14. CASE ExitButtonTapped
  <2>0. LoginsBounded'
    BY <1>0, <1>14, BoundsAssumption DEF ExitButtonTapped, TypeOK, LoginsBounded
  <2>1. TypeOK'
    BY <1>0, <1>14, <2>0, EmptyFormIsForm
       DEF ExitButtonTapped, TypeOK, LoginsBounded
  <2>2. SavingInv' /\ LoginInv' /\ RegisteredUserHasPin'
    BY <1>0, <1>14 DEF ExitButtonTapped, SavingInv, LoginInv, RegisteredUserHasPin
  <2> QED BY <2>0, <2>1, <2>2 DEF SessionInv
<1>15. CASE Restart
  <2>0. LoginsBounded'
    BY <1>0, <1>15, BoundsAssumption DEF Restart, FreshLogin, TypeOK, LoginsBounded
  <2>1. TypeOK'
    BY <1>0, <1>15, <2>0, NoneIsNoPin, EmptyFormIsForm
       DEF Restart, FreshLogin, TypeOK, LoginsBounded
  <2>2. SavingInv' /\ LoginInv' /\ RegisteredUserHasPin'
    BY <1>0, <1>15 DEF Restart, FreshLogin, SavingInv, LoginInv, RegisteredUserHasPin
  <2> QED BY <2>0, <2>1, <2>2 DEF SessionInv
<1>16. CASE UNCHANGED vars
  BY <1>16 DEF vars, SessionInv, TypeOK, LoginsBounded, SavingInv, LoginInv,
               RegisteredUserHasPin, Valid
<1> QED
  BY <1>1, <1>2, <1>3, <1>4, <1>5, <1>6, <1>7, <1>8, <1>9, <1>10, <1>11, <1>12,
     <1>13, <1>14, <1>15, <1>16 DEF Next

-----------------------------------------------------------------------------
\* The invariant holds throughout.
LEMMA SessionInvariant == Spec => []SessionInv
<1> QED BY InitSession, StepSession, PTL DEF Spec

\* Every variable keeps its type: the numpad and the form never hold more than
\* PinLength digits, and the logins under way stay within their bound.
THEOREM TypeCorrect == Spec => []TypeOK
<1>1. SessionInv => TypeOK
  BY DEF SessionInv
<1> QED BY <1>1, SessionInvariant, PTL

\* A registered user can log in with the PIN of the form: the Keychain holds it
\* whenever the app is killed during registerButtonTaped, or at any other time.
THEOREM RegisteredHasPin == Spec => []RegisteredUserHasPin
<1>1. SessionInv => RegisteredUserHasPin
  BY DEF SessionInv
<1> QED BY <1>1, SessionInvariant, PTL

\* The main screen is only reached through an authorization on the login screen
\* it is presented by, and never without a registered user.
THEOREM MainIsAuthorized == Spec => []MainOnlyAfterAuthorization
<1>1. SessionInv => MainOnlyAfterAuthorization
  BY DEF SessionInv, LoginInv, MainOnlyAfterAuthorization
<1> QED BY <1>1, SessionInvariant, PTL
=============================================================================

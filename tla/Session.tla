------------------------------ MODULE Session ------------------------------
(***************************************************************************)
(* How a user of BankUI registers, logs in and leaves: RegistrationMenu,   *)
(* LoginVC with its LoginNumPad, and HeaderMainVC, over what outlives the  *)
(* app, UserDefaults and the Keychain.                                     *)
(*                                                                         *)
(* All of this runs on the main thread.  The app may be killed between any *)
(* two writes; an answer of the server may come while the user types,      *)
(* logs in a second time or has a card open over the login screen.         *)
(*                                                                         *)
(* Of the form's fields the PIN is modelled, and whether the others are    *)
(* all valid, or one is too short, or one empty.                           *)
(***************************************************************************)
EXTENDS Integers, Sequences

CONSTANTS
    Digit,
    PinLength,  \* 4 in the code
    MaxLogins,  \* bound on the logins under way at once
    None        \* no PIN in the Keychain; nobody in UserDefaults

ASSUME BoundsAssumption == PinLength \in Nat \ {0} /\ MaxLogins \in Nat
ASSUME NoneAssumption == None \notin Seq(Digit)

VARIABLES
    userData,   \* UserDefaults: the PIN its user gave, None if there is no user
    pin,        \* the PIN in the Keychain
    screen,     \* "registration", "login" or "main"
    form,       \* the fields of RegistrationMenu
    enabled,    \* the button of RegistrationMenu can be tapped
    saving,     \* what registerButtonTaped does next, "no" if it is not running
    input,      \* inputText of the numpad
    card,       \* another screen is presented over the login screen
    delayed,    \* goToMainVC blocks that have not run yet
    requests,   \* logins the server has not answered
    authorized, \* this LoginVC has accepted a PIN or a finger (history variable)
    unchecked,  \* the form saved last was not valid (history variable)
    addFailed,  \* the Keychain refused the PIN saved last (history variable)
    covered     \* an answer found something presented (history variable)

storedVars == <<userData, pin>>
formVars == <<form, enabled, saving>>
loginVars == <<input, card, delayed, requests>>
savedVars == <<unchecked, addFailed>>
vars == <<storedVars, screen, formVars, loginVars, authorized, savedVars, covered>>

Pin == UNION {[1..n -> Digit] : n \in 0..PinLength}
Form == [pin : Pin, others : {"valid", "short", "empty"}]
EmptyForm == [pin |-> <<>>, others |-> "empty"]

TypeOK ==
    /\ userData \in Pin \cup {None}
    /\ pin \in Pin \cup {None}
    /\ screen \in {"registration", "login", "main"}
    /\ form \in Form
    /\ enabled \in BOOLEAN
    /\ saving \in {"no", "delete", "add", "save"}
    /\ input \in Pin
    /\ card \in BOOLEAN
    /\ delayed \in 0..MaxLogins
    /\ requests \in 0..MaxLogins
    /\ authorized \in BOOLEAN
    /\ unchecked \in BOOLEAN
    /\ addFailed \in BOOLEAN
    /\ covered \in BOOLEAN

Init ==
    /\ userData = None
    /\ pin = None
    /\ screen = "registration"
    /\ form = EmptyForm
    /\ enabled = FALSE
    /\ saving = "no"
    /\ input = <<>>
    /\ card = FALSE
    /\ delayed = 0
    /\ requests = 0
    /\ authorized = FALSE
    /\ unchecked = FALSE
    /\ addFailed = FALSE
    /\ covered = FALSE

-----------------------------------------------------------------------------
\* The check without the length of the PIN.
ValidAnyPin(f) == f.pin # <<>> /\ f.others = "valid"

Valid(f) == Len(f.pin) = PinLength /\ f.others = "valid"

Registering == screen = "registration" /\ saving = "no"

\* The user edits a field; nothing is checked yet.
Edit ==
    /\ Registering
    /\ form' \in Form
    /\ UNCHANGED <<storedVars, screen, enabled, saving, loginVars, authorized,
                   savedVars, covered>>

\* textFieldDidEndEditing: checkFields.
EndEditing ==
    /\ Registering
    /\ enabled' = Valid(form)
    /\ UNCHANGED <<storedVars, screen, form, saving, loginVars, authorized,
                   savedVars, covered>>

(***************************************************************************)
(* registerButtonTaped: signIn ends the editing, which checks the fields,  *)
(* but goes on whatever the check says, and returns if a field is empty.   *)
(***************************************************************************)
RegisterButtonTaped ==
    /\ Registering
    /\ enabled
    /\ enabled' = Valid(form)
    /\ unchecked' = ~Valid(form)
    /\ saving' = IF form.pin = <<>> \/ form.others = "empty" THEN "save"
                 ELSE "delete"
    /\ UNCHANGED <<storedVars, screen, form, loginVars, authorized, addFailed,
                   covered>>

\* Keychain.setPassword: the old PIN is deleted, unless the Keychain refuses, ...
DeletePin ==
    /\ saving = "delete"
    /\ saving' = "add"
    /\ pin' \in {None, pin}
    /\ UNCHANGED <<userData, screen, form, enabled, loginVars, authorized,
                   savedVars, covered>>

\* ... and the new one added, which is refused while there is another.  The
\* status is not looked at, of the deletion no more than of the addition.
AddPin ==
    /\ saving = "add"
    /\ saving' = "save"
    /\ \/ pin = None /\ pin' = form.pin /\ addFailed' = FALSE
       \/ pin' = pin /\ addFailed' = TRUE
    /\ UNCHANGED <<userData, screen, form, enabled, loginVars, authorized,
                   unchecked, covered>>

\* A LoginVC as it is presented.
FreshLogin ==
    /\ input' = <<>>
    /\ card' = FALSE
    /\ delayed' = 0
    /\ requests' = 0
    /\ authorized' = FALSE
    /\ covered' = FALSE

\* UserData.save, and a LoginVC is presented.
SaveUserData ==
    /\ saving = "save"
    /\ saving' = "no"
    /\ userData' = form.pin
    /\ screen' = "login"
    /\ FreshLogin
    /\ UNCHANGED <<pin, form, enabled, savedVars>>

-----------------------------------------------------------------------------
OnLogin == screen = "login" /\ ~card

\* goToMainVC: a block is queued for a second later.
GoToMainVC ==
    /\ delayed + requests < MaxLogins
    /\ delayed' = delayed + 1
    /\ authorized' = TRUE

\* Mutant: goToMainVC is called whatever pinConfirm says.
NumPadTappedAnyPin(digit) ==
    /\ OnLogin
    /\ Len(input) < PinLength
    /\ input' = Append(input, digit)
    /\ authorized' = (authorized \/ input' = pin)
    /\ delayed' = IF Len(input') = PinLength THEN delayed + 1 ELSE delayed
    /\ UNCHANGED <<storedVars, screen, formVars, card, requests, savedVars, covered>>

NumPadTapped(digit) ==
    /\ OnLogin
    /\ Len(input) < PinLength
    /\ LET text == Append(input, digit)
       IN  \/ /\ Len(text) < PinLength
              /\ input' = text
              /\ UNCHANGED <<delayed, authorized>>
           \/ /\ Len(text) = PinLength
              /\ text = pin
              /\ input' = text
              /\ GoToMainVC
           \/ /\ Len(text) = PinLength
              /\ text # pin
              /\ input' = <<>>
              /\ UNCHANGED <<delayed, authorized>>
    /\ UNCHANGED <<storedVars, screen, formVars, card, requests, savedVars, covered>>

ClearButtonTapped ==
    /\ OnLogin
    /\ input # <<>>
    /\ input' = SubSeq(input, 1, Len(input) - 1)
    /\ UNCHANGED <<storedVars, screen, formVars, card, delayed, requests,
                   authorized, savedVars, covered>>

\* authorization: the device has accepted the user's finger or face.
BiometrySucceeds ==
    /\ OnLogin
    /\ GoToMainVC
    /\ UNCHANGED <<storedVars, screen, formVars, input, card, requests,
                   savedVars, covered>>

\* The address or the support button: a card over the login screen.
OpenCard ==
    /\ OnLogin
    /\ card' = TRUE
    /\ UNCHANGED <<storedVars, screen, formVars, input, delayed, requests,
                   authorized, savedVars, covered>>

CloseCard ==
    /\ screen = "login"
    /\ card
    /\ card' = FALSE
    /\ UNCHANGED <<storedVars, screen, formVars, input, delayed, requests,
                   authorized, savedVars, covered>>

-----------------------------------------------------------------------------
\* The block of goToMainVC: getNetworkUserData.
SendLogin ==
    /\ delayed > 0
    /\ delayed' = delayed - 1
    /\ requests' = requests + 1
    /\ UNCHANGED <<storedVars, screen, formVars, input, card, authorized,
                   savedVars, covered>>

\* The server answers with a token: the main screen is presented, which
\* clears the numpad, unless something else is presented already.
LoginAnswered ==
    /\ requests > 0
    /\ requests' = requests - 1
    /\ \/ /\ OnLogin
          /\ screen' = "main"
          /\ input' = <<>>
          /\ UNCHANGED covered
       \/ /\ ~OnLogin
          /\ covered' = TRUE
          /\ UNCHANGED <<screen, input>>
    /\ UNCHANGED <<storedVars, formVars, card, delayed, authorized, savedVars>>

\* The numpad is not cleared after a failed login.
LoginFailsSilently ==
    /\ requests > 0
    /\ requests' = requests - 1
    /\ UNCHANGED <<storedVars, screen, formVars, input, card, delayed, authorized,
                   savedVars, covered>>

\* No token: a notification, and the numpad is cleared.
LoginFails ==
    /\ requests > 0
    /\ requests' = requests - 1
    /\ input' = <<>>
    /\ UNCHANGED <<storedVars, screen, formVars, card, delayed, authorized,
                   savedVars, covered>>

\* The exit button of the main screen: a RegistrationMenu is presented.  What
\* the LoginVC below still waits for is of no effect any more.
ExitButtonTapped ==
    /\ screen = "main"
    /\ userData' = None
    /\ screen' = "registration"
    /\ form' = EmptyForm
    /\ enabled' = FALSE
    /\ delayed' = 0
    /\ requests' = 0
    /\ UNCHANGED <<pin, saving, input, card, authorized, savedVars, covered>>

\* The app is killed and started again.
Restart ==
    /\ FreshLogin
    /\ screen' = IF userData = None THEN "registration" ELSE "login"
    /\ form' = EmptyForm
    /\ enabled' = FALSE
    /\ saving' = "no"
    /\ UNCHANGED <<storedVars, savedVars>>

Next ==
    \/ Edit
    \/ EndEditing
    \/ RegisterButtonTaped
    \/ DeletePin
    \/ AddPin
    \/ SaveUserData
    \/ \E digit \in Digit : NumPadTapped(digit)
    \/ ClearButtonTapped
    \/ BiometrySucceeds
    \/ OpenCard
    \/ CloseCard
    \/ SendLogin
    \/ LoginAnswered
    \/ LoginFails
    \/ ExitButtonTapped
    \/ Restart

Spec == Init /\ [][Next]_vars

\* Delayed blocks run and every login is answered.
Fairness == WF_vars(SendLogin) /\ WF_vars(LoginAnswered \/ LoginFails)

FairSpec == Spec /\ Fairness

-----------------------------------------------------------------------------
(***************************************************************************)
(* Wherever the app is killed, a registered user's PIN is in the Keychain, *)
(* of full length, unless the form was saved unchecked (its fields edited  *)
(* after the button was enabled) or the Keychain refused the PIN, be it    *)
(* because it had not deleted the one before.                              *)
(***************************************************************************)
RegisteredUserHasPin ==
    userData # None /\ ~unchecked /\ ~addFailed =>
        pin = userData /\ Len(pin) = PinLength

(***************************************************************************)
(* The main screen belongs to a registered user whom this very login       *)
(* screen has authorized, however late the server's answer came.           *)
(***************************************************************************)
MainOnlyAfterAuthorization ==
    screen = "main" => authorized /\ userData # None

(***************************************************************************)
(* A PIN once complete does not block the numpad for good: the answer, or  *)
(* the user, clears it, unless the answer was lost behind another screen.  *)
(***************************************************************************)
NumPadIsFreedUnlessCovered ==
    Len(input) = PinLength ~> Len(input) < PinLength \/ covered
=============================================================================

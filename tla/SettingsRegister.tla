-------------------------- MODULE SettingsRegister --------------------------
(***************************************************************************)
(* What the settings of a user promise: one value, made of a document per  *)
(* type, that is either replaced as a whole under a new number or edited   *)
(* one document at a time, which leaves it without a number.  A number,    *)
(* once given, keeps naming the same value.  ConfigBundles implements it.  *)
(***************************************************************************)
EXTENDS Naturals, Sequences

CONSTANTS ConfigTypes, Overrides

VARIABLES
  value,    \* the settings in force
  number,   \* what they are called, 0 when they have no number
  history   \* the numbered values, by number

rvars == <<value, number, history>>

Settings == [ConfigTypes -> Overrides]

Init == value \in Settings /\ number = 1 /\ history = <<value>>

Replace ==
  /\ value' \in Settings
  /\ history' = Append(history, value')
  /\ number' = Len(history')

Edit(t) ==
  /\ \E o \in Overrides : value' = [value EXCEPT ![t] = o]
  /\ number' = 0
  /\ UNCHANGED history

Next == Replace \/ \E t \in ConfigTypes : Edit(t)

Spec == Init /\ [][Next]_rvars
=============================================================================

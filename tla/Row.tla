--------------------------------- MODULE Row ----------------------------------
(***************************************************************************)
(* A row is its key and its columns: Keys and Column.  A behaviour is      *)
(* about one of the two.                                                   *)
(***************************************************************************)
EXTENDS Column

CONSTANTS
    Keyings,    \* those of Keys
    KeyValues

ASSUME KeyAssumption ==
    /\ Keyings \subseteq Seq(DOMAIN KeyValues) \ {<<>>}
    /\ DOMAIN KeyValues \subseteq IntTypes \cup {"String"}
    /\ \A t \in DOMAIN KeyValues : KeyValues[t] \subseteq ValuesOf(t)

VARIABLES types, rows, known, asked, answer    \* those of Keys

Key == INSTANCE Keys

keyvars == <<types, rows, known, asked, answer>>

(* Behaviours of a column have no key, those of a key a column nobody writes. *)
NoKey == <<>>
RowInit ==
    \/ Init /\ types = NoKey /\ rows = {} /\ known = {} /\ asked = <<"nothing", NoKey>> /\ answer = "none"
    \/ Key!Init /\ Init /\ ty = CHOOSE t \in DOMAIN Inputs : TRUE
RowNext ==
    \/ types = NoKey /\ Next /\ UNCHANGED keyvars
    \/ types # NoKey /\ Key!Next /\ UNCHANGED vars
RowSpec == RowInit /\ [][RowNext]_<<vars, keyvars>>

-----------------------------------------------------------------------------
(* Keys.KeysReadBack: rows are those of the keys inserted, and their key columns
   read back as they were written (insert.rs:119-150, op.rs:28-42).          *)
KeysReadBack == Key!KeysReadBack

(* Keys.FoundWhenThere: a key is found exactly when its row is there, in whatever
   form it is handed over (record_id.rs:34-47).                              *)
FoundWhenThere == Key!FoundWhenThere

(* Keys.EveryKeyAccepted: no key is refused (driver.md:162-163). *)
EveryKeyAccepted == Key!EveryKeyAccepted
=============================================================================

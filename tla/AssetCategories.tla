--------------------------- MODULE AssetCategories ---------------------------
(***************************************************************************)
(* The categories of assets and the fields they define, beside the assets    *)
(* that are entered under them (assets/service.py).                          *)
(*                                                                           *)
(* Concurrency.  Editing a category locks its row, then counts its assets.   *)
(* Creating an asset, or moving one to another category, reads the category  *)
(* without a lock, validates the asset's values against the fields it read    *)
(* and writes its reference later, in a foreign key that shares the row's    *)
(* key until the commit: filing[t] is that request.  A refused or lost       *)
(* request rolls back.                                                       *)
(***************************************************************************)
CONSTANTS
  Pieces,       \* assets
  Categories,
  Layouts,      \* sets of field definitions a category may have
  NoEntry

VARIABLES
  layout,       \* layout[c]: the field_definitions of category c
  offered,      \* the active categories
  filed,        \* filed[t]: the asset's category, the fields its values were
                \* validated against, and those the category had when the
                \* asset's row came to refer to it; raced, a history
                \* variable: an edit committed between the two
  filing        \* filing[t]: the request that creates t or moves it, the same;
                \* since is NoEntry until its flush

categoryVars == <<layout, offered, filed, filing>>

ASSUME CategoryAssumption == NoEntry \notin Layouts

CategoryInit ==
  /\ layout \in [Categories -> Layouts]
  /\ offered = Categories
  /\ filed = [t \in Pieces |-> NoEntry]
  /\ filing = [t \in Pieces |-> NoEntry]

-----------------------------------------------------------------------------
\* The category's row is referenced by a row not yet committed.
CategoryShared(c) ==
  \E t \in Pieces : filing[t] # NoEntry /\ filing[t].category = c /\ filing[t].since # NoEntry

Used(c) == \E t \in Pieces : filed[t] # NoEntry /\ filed[t].category = c

\* create_asset, and update_asset_master with another category, read the category
\* and validate the values by its fields (_validate_category_values); the latter
\* holds the asset's row and refuses an allocated asset.
BeginFiling(t, c) ==
  /\ filing[t] = NoEntry
  /\ c \in offered
  /\ filed[t] # NoEntry => filed[t].category # c
  /\ filing' = [filing EXCEPT ![t] =
       [category |-> c, under |-> layout[c], since |-> NoEntry, raced |-> FALSE]]
  /\ UNCHANGED <<layout, offered, filed>>

\* The flush: nothing is validated again.
WriteFiling(t) ==
  /\ filing[t] # NoEntry /\ filing[t].since = NoEntry
  /\ filing' = [filing EXCEPT ![t].since = layout[filing[t].category]]
  /\ UNCHANGED <<layout, offered, filed>>

CommitFiling(t) ==
  /\ filing[t] # NoEntry /\ filing[t].since # NoEntry
  /\ filed' = [filed EXCEPT ![t] = filing[t]]
  /\ filing' = [filing EXCEPT ![t] = NoEntry]
  /\ UNCHANGED <<layout, offered>>

DropFiling(t) ==
  /\ filing[t] # NoEntry
  /\ filing' = [filing EXCEPT ![t] = NoEntry]
  /\ UNCHANGED <<layout, offered, filed>>

\* update_asset_master with the category it has, and correct_identifiers: the
\* asset's row is locked and its values are validated by the category's fields.
ReviseAsset(t) ==
  /\ filing[t] = NoEntry /\ filed[t] # NoEntry
  /\ filed' = [filed EXCEPT ![t].under = layout[filed[t].category], ![t].raced = FALSE]
  /\ UNCHANGED <<layout, offered, filing>>

\* Other fields, under the requests that have read the old ones.
Redefine(c, l) ==
  /\ layout' = [layout EXCEPT ![c] = l]
  /\ filing' = [t \in Pieces |->
       IF filing[t] # NoEntry /\ filing[t].category = c /\ filing[t].since = NoEntry
       THEN [filing[t] EXCEPT !.raced = TRUE] ELSE filing[t]]
  /\ UNCHANGED <<offered, filed>>

\* Mutant: the count is made without the lock on the category's row.
EditLayoutUnlocked(c, l) ==
  /\ layout[c] # l
  /\ ~Used(c)
  /\ Redefine(c, l)

\* update_category with other fields.
EditLayout(c, l) ==
  /\ ~CategoryShared(c)
  /\ layout[c] # l
  /\ ~Used(c)
  /\ Redefine(c, l)

\* set_category_status.
SetCategoryStatus(c, active) ==
  /\ ~CategoryShared(c)
  /\ offered' = IF active THEN offered \cup {c} ELSE offered \ {c}
  /\ UNCHANGED <<layout, filed, filing>>

CategoryNext ==
  \/ \E t \in Pieces :
       \/ \E c \in Categories : BeginFiling(t, c)
       \/ WriteFiling(t) \/ CommitFiling(t) \/ DropFiling(t) \/ ReviseAsset(t)
  \/ \E c \in Categories :
       \/ \E l \in Layouts : EditLayout(c, l)
       \/ \E active \in BOOLEAN : SetCategoryStatus(c, active)

CategorySpec == CategoryInit /\ [][CategoryNext]_categoryVars

-----------------------------------------------------------------------------
\* Field definitions do not change after an asset uses the category: what they are
\* now, they were when the row of each of its assets came to refer to it, also
\* when it was being entered while an edit counted (assets/service.py:336).  So
\* each asset stands under the fields its values were validated against, unless an
\* edit committed between that validation and the flush.
DefinitionsKept ==
  \A t \in Pieces : filed[t] # NoEntry =>
    LET fields == layout[filed[t].category]
    IN filed[t].since = fields /\ (filed[t].under = fields \/ filed[t].raced)

\* "Field definitions cannot change after Assets use the category"
\* (assets/service.py:340): every asset stands under the fields it was
\* validated against.  An asset whose entry read the category before an edit and
\* was flushed after it does not: see the README.
EnteredByLayout ==
  \A t \in Pieces : filed[t] # NoEntry => filed[t].under = layout[filed[t].category]
=============================================================================

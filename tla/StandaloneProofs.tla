--------------------------- MODULE StandaloneProofs --------------------------
(***************************************************************************)
(* Theorems about the components that share no state with any other: the   *)
(* checks of an uploaded file, the settings of the processes, the          *)
(* migrations and the deployment workflow.  Each is of the component's own *)
(* specification, for every value of its constants.                        *)
(***************************************************************************)
EXTENDS PhotoValidation, Configuration, Deployment, TLAPS

-----------------------------------------------------------------------------
(***************************************************************************)
(* Photo validation.  Each check that is past has left its mark on what    *)
(* comes after it, and every step finds the file at its beginning.         *)
(***************************************************************************)
Declared == file.type \in AllowedTypes /\ file.name <= MaxName
Measured == Declared /\ file.bytes \in 1..MaxBytes
Verified == Measured /\ Opens /\ ~EdgeTooLong /\ Pixels <= MaxPixels
Recognised == Verified /\ file.format \in Formats /\ file.type \in Declarable[file.format]

Passed ==
  /\ stage = "measure" => Declared
  /\ stage = "verify" => Measured
  /\ stage = "format" => Verified
  /\ stage \in {"decode", "output", "put", "stored"} => Recognised
  /\ stage = "output" => outPosition = file.result
  /\ stage = "put" => outPosition = 0 /\ file.result <= MaxBytes

ValidationInv ==
  /\ ValidationTypeOK
  /\ position = 0
  /\ stage # "refused" => status = 0
  /\ Passed
  /\ StoredIsSound
  /\ RefusedForItsReason

\* What the table IMAGE_FORMATS says of every format in it.
LEMMA FormatTable ==
  ASSUME NEW f \in Formats
  PROVE  /\ StoredAs[f] \in {"image/jpeg", "image/png", "image/webp"}
         /\ Declarable[f] \subseteq AllowedTypes
         /\ StoredAs[f] \in AllowedTypes
<1>1. StoredAs[f] \in {"image/jpeg", "image/png", "image/webp"}
  BY DEF StoredAs, Formats
<1>2. Declarable[f] \subseteq AllowedTypes
  BY DEF AllowedTypes
<1>3. {"image/jpeg", "image/png", "image/webp"} \subseteq AllowedTypes
  <2>1. /\ "image/jpeg" \in Declarable["JPEG"] /\ "image/png" \in Declarable["PNG"]
        /\ "image/webp" \in Declarable["WEBP"]
    BY DEF Declarable
  <2> QED  BY <2>1 DEF AllowedTypes, Formats
<1> QED  BY <1>1, <1>2, <1>3

\* Sides and pixels are natural numbers.
LEMMA FileType ==
  ASSUME ValidationTypeOK
  PROVE  /\ file \in File
         /\ file.width \in Nat /\ file.height \in Nat /\ Pixels \in Nat
         /\ file.bytes \in Nat /\ file.name \in Nat /\ file.result \in Nat \ {0}
         /\ file.type \in AllowedTypes \cup {"other"}
         /\ file.format \in Formats \cup {"none", "other"}
<1>1. file \in File
  BY LimitsAssumption DEF ValidationTypeOK
<1>2. file.width \in Nat /\ file.height \in Nat
  BY <1>1 DEF File
<1>3. file.width * file.height \in Nat
  BY <1>2
<1> QED  BY <1>1, <1>2, <1>3 DEF File, Pixels

\* Nothing is recorded of a file before it is looked at.
LEMMA ValidationStarts ==
  ASSUME ValidationInit
  PROVE  ValidationInv
<1>1. ValidationTypeOK
  BY DEF ValidationInit, ValidationTypeOK
<1> QED
  BY <1>1 DEF ValidationInit, ValidationInv, Passed, StoredIsSound, RefusedForItsReason

\* Every check keeps what the ones before it have established.
LEMMA ValidationStep ==
  ASSUME ValidationInv, [ValidationNext]_validationVars
  PROVE  ValidationInv'
<1> USE DEF Refuse, Proceed
<1>1. /\ file \in File
      /\ file.width \in Nat /\ file.height \in Nat /\ Pixels \in Nat
      /\ file.bytes \in Nat /\ file.name \in Nat /\ file.result \in Nat \ {0}
      /\ file.type \in AllowedTypes \cup {"other"}
      /\ file.format \in Formats \cup {"none", "other"}
  BY FileType DEF ValidationInv
<1>2. file' = file /\ ValidationTypeOK' /\ position' = 0
  <2>1. CASE CheckDeclared
    BY <2>1 DEF CheckDeclared, ValidationInv, ValidationTypeOK
  <2>2. CASE Measure
    BY <2>2 DEF Measure, SizeOutcome, ValidationInv, ValidationTypeOK
  <2>3. CASE Verify
    BY <2>3 DEF Verify, ValidationInv, ValidationTypeOK
  <2>4. CASE CheckFormat
    BY <2>4 DEF CheckFormat, ValidationInv, ValidationTypeOK
  <2>5. CASE Decode
    BY <2>5, <1>1 DEF Decode, ValidationInv, ValidationTypeOK
  <2>6. CASE CheckOutput
    BY <2>6 DEF CheckOutput, ValidationInv, ValidationTypeOK
  <2>7. CASE Put
    <3>1. file.format \in Formats /\ outPosition = 0
      BY <2>7 DEF Put, ValidationInv, Passed, Recognised
    <3>2. stored' \in [amount : Nat, type : AllowedTypes \cup {"none"}]
      BY <2>7, <3>1, <1>1, FormatTable DEF Put
    <3> QED  BY <2>7, <3>2, <1>1 DEF Put, ValidationInv, ValidationTypeOK
  <2>8. CASE Handled \/ UNCHANGED validationVars
    BY <2>8 DEF Handled, validationVars, ValidationInv, ValidationTypeOK
  <2> QED
    BY <2>1, <2>2, <2>3, <2>4, <2>5, <2>6, <2>7, <2>8 DEF ValidationNext
<1> DEFINE Kept == /\ stage' # "refused" => status' = 0
                   /\ Passed' /\ StoredIsSound' /\ RefusedForItsReason'
<1>2a. /\ Pixels' = Pixels /\ (EdgeTooLong' <=> EdgeTooLong)
       /\ ~Opens => file.format = "none" \/ Pixels > BombPixels
  BY <1>1, <1>2, LimitsAssumption DEF Pixels, EdgeTooLong, Opens, ValidationInv
<1>3. ASSUME CheckDeclared PROVE Kept
  BY <1>1, <1>2, <1>3, FormatTable
     DEF CheckDeclared, ValidationInv, Passed, Declared, Measured, Verified, Recognised,
         StoredIsSound, RefusedForItsReason, EdgeTooLong, Pixels
<1>4. ASSUME Measure PROVE Kept
  BY <1>1, <1>2, <1>4
     DEF Measure, SizeOutcome, ValidationInv, Passed, Declared, Measured, Verified,
         Recognised, StoredIsSound, RefusedForItsReason, EdgeTooLong, Pixels
<1>5. ASSUME Verify PROVE Kept
  BY <1>1, <1>2, <1>2a, <1>5
     DEF Verify, Opens, ValidationInv, Passed, Declared, Measured, Verified, Recognised,
         StoredIsSound, RefusedForItsReason
<1>6. ASSUME CheckFormat PROVE Kept
  BY <1>1, <1>2, <1>2a, <1>6
     DEF CheckFormat, Opens, ValidationInv, Passed, Declared, Measured, Verified, Recognised,
         StoredIsSound, RefusedForItsReason
<1>7. ASSUME Decode PROVE Kept
  <2>1. Recognised /\ Recognised' /\ status = 0
    BY <1>2, <1>2a, <1>7
       DEF Decode, ValidationInv, Passed, Declared, Measured, Verified, Recognised, Opens
  <2>2. \/ stage' = "refused" /\ status' = 500 /\ file.pillow = "decode_raises"
        \/ stage' = "refused" /\ status' = 422 /\ file.pillow = "undecodable"
        \/ stage' = "output" /\ status' = 0 /\ outPosition' = file.result
    BY <2>1, <1>7 DEF Decode, Recognised, Verified
  <2>3. Passed'
    BY <2>1, <2>2, <1>2 DEF Passed
  <2>4. StoredIsSound'
    BY <2>2 DEF StoredIsSound
  <2>5. RefusedForItsReason'
    BY <2>2, <1>2 DEF RefusedForItsReason
  <2> QED
    BY <2>2, <2>3, <2>4, <2>5
<1>8. ASSUME CheckOutput PROVE Kept
  <2>1. Recognised /\ Recognised' /\ status = 0
    BY <1>2, <1>2a, <1>8
       DEF CheckOutput, ValidationInv, Passed, Declared, Measured, Verified, Recognised, Opens
  <2>2. \/ stage' = "refused" /\ status' = 413 /\ file.result > MaxBytes
        \/ stage' = "put" /\ status' = 0 /\ outPosition' = 0 /\ file.result <= MaxBytes
    BY <1>1, <2>1, <1>8, LimitsAssumption DEF CheckOutput, ValidationInv, Passed
  <2> QED
    BY <1>2, <2>1, <2>2 DEF Passed, StoredIsSound, RefusedForItsReason
<1>9. ASSUME Put PROVE Kept
  <2>1. /\ Recognised /\ Recognised' /\ outPosition = 0 /\ file.result <= MaxBytes
    BY <1>2, <1>9
       DEF Put, ValidationInv, Passed, Declared, Measured, Verified, Recognised, Opens,
           EdgeTooLong, Pixels
  <2>2. stored'.amount = file.result /\ stored'.type = StoredAs[file.format]
    BY <1>1, <1>9, <2>1 DEF Put
  <2>3. stored'.type \in {"image/jpeg", "image/png", "image/webp"}
    BY <2>1, <2>2, FormatTable DEF Recognised
  <2>4. file.width <= MaxEdge /\ file.height <= MaxEdge /\ Pixels' <= MaxPixels
    BY <1>1, <1>2, <2>1, LimitsAssumption
       DEF Recognised, Verified, EdgeTooLong, Pixels
  <2>5. StoredIsSound'
    BY <1>2, <2>1, <2>2, <2>3, <2>4 DEF StoredIsSound, Recognised
  <2> QED
    BY <1>2, <1>9, <2>1, <2>5
       DEF Put, ValidationInv, Passed, RefusedForItsReason, EdgeTooLong, Pixels
<1>10. ASSUME Handled \/ UNCHANGED validationVars PROVE Kept
  BY <1>10
     DEF Handled, validationVars, ValidationInv, Passed, Declared, Measured, Verified,
         Recognised, Opens, StoredIsSound, RefusedForItsReason, EdgeTooLong, Pixels
<1> QED
  BY <1>2, <1>3, <1>4, <1>5, <1>6, <1>7, <1>8, <1>9, <1>10
     DEF ValidationNext, ValidationInv

\* The invariant of the checks holds whatever the files and the limits are.
THEOREM ValidationInvariance == ValidationSpec => []ValidationInv
BY ValidationStarts, ValidationStep, PTL DEF ValidationSpec

\* What preupload_crane_photo stores is the whole image, within every limit and
\* of the type recorded with it, for every file and every value of the limits.
THEOREM StoredIsSoundHolds == ValidationSpec => []StoredIsSound
<1>1. ValidationInv => StoredIsSound  BY DEF ValidationInv
<1> QED  BY <1>1, ValidationInvariance, PTL

\* A file is only refused for the reason that the status of the answer gives.
THEOREM RefusedForItsReasonHolds == ValidationSpec => []RefusedForItsReason
<1>1. ValidationInv => RefusedForItsReason  BY DEF ValidationInv
<1> QED  BY <1>1, ValidationInvariance, PTL

-----------------------------------------------------------------------------
(***************************************************************************)
(* Settings.  What runs has settings that validate; what compose started   *)
(* has moreover a name that the migrations know.                           *)
(***************************************************************************)
SettingsInv ==
  /\ SettingsTypeOK
  /\ \A p \in Processes \ alive : settings[p] = env
  /\ \A p \in alive : Valid(settings[p])
  /\ \A p \in composed : Targets(settings[p]) # {}

\* Settings that validate come with the whole of the object storage or with none
\* of it, be the endpoint unusable or not.
LEMMA ValidStorage ==
  ASSUME NEW e \in Environments, Valid(e)
  PROVE  /\ Stores(e) => Shows(e)
         /\ Shows(e) => Stores(e) \/ e.r2[Endpoint] = "unusable"
         /\ Deployed(e) => \/ Stores(e)
                           \/ Missing(e) = {} /\ e.r2[Endpoint] = "unusable"
<1>1. e.r2 \in [R2 -> Values]
  BY DEF Environments
<1>2. /\ Endpoint \in R2 /\ PublicBase \in R2 /\ Endpoint \in Urls
  BY DEF R2, Urls
<1>3. CASE Missing(e) = {}
  <2>1. e.r2[Endpoint] \in {"good", "unusable"} /\ e.r2[PublicBase] # "missing"
    BY <1>1, <1>2, <1>3 DEF Missing, Valid, Values
  <2> QED  BY <2>1, <1>3 DEF Stores, Shows
<1>4. CASE Missing(e) = R2
  <2>1. e.r2[Endpoint] = "missing" /\ e.r2[PublicBase] = "missing"
    BY <1>2, <1>4 DEF Missing
  <2>2. ~Deployed(e)
    BY <1>2, <1>4 DEF Valid
  <2> QED  BY <2>1, <2>2 DEF Stores, Shows
<1> QED  BY <1>3, <1>4 DEF Valid

\* A name that migrations run for is written as config.py takes it.
LEMMA NameIsKnown ==
  ASSUME NEW e \in Environments, Targets(e) # {}
  PROVE  e.environment \in {"dev", "development", "test"} \/ Deployed(e)
<1>1. e.environment \in Names
  BY DEF Environments
<1>2. e.environment \in {"test", "dev", "development", "staging", "production"}
  BY DEF Targets
<1> QED  BY <1>1, <1>2, NamesAssumption DEF Deployed

\* Whatever is edited, started and stopped, the settings of what runs have been
\* validated, and those of what compose runs have passed the migrations.
THEOREM SettingsInvariance == SettingsSpec => []SettingsInv
<1>1. SettingsInit => SettingsInv
  BY DEF SettingsInit, SettingsInv, SettingsTypeOK
<1>2. ASSUME SettingsInv, [SettingsNext]_settingsVars PROVE SettingsInv'
  <2>1. CASE EditEnvironment
    BY <1>2, <2>1 DEF EditEnvironment, SettingsInv, SettingsTypeOK
  <2>2. CASE ComposeUp
    <3>1. PICK started \in SUBSET Processes :
            /\ settings' = [p \in Processes |-> IF p \in started THEN env ELSE settings[p]]
            /\ alive' = alive \cup started
            /\ composed' = composed \cup started
      BY <2>2 DEF ComposeUp
    <3> QED
      BY <1>2, <2>2, <3>1 DEF ComposeUp, SettingsInv, SettingsTypeOK
  <2>3. ASSUME NEW p \in Processes, StartByHand(p) PROVE SettingsInv'
    BY <1>2, <2>3 DEF StartByHand, SettingsInv, SettingsTypeOK
  <2>4. ASSUME NEW p \in Processes, Stop(p) PROVE SettingsInv'
    BY <1>2, <2>4 DEF Stop, SettingsInv, SettingsTypeOK
  <2>5. CASE UNCHANGED settingsVars
    BY <1>2, <2>5 DEF settingsVars, SettingsInv, SettingsTypeOK
  <2> QED
    BY <1>2, <2>1, <2>2, <2>3, <2>4, <2>5 DEF SettingsNext
<1> QED  BY <1>1, <1>2, PTL DEF SettingsSpec

\* No process ever runs that can store photos and not show them, or show photos
\* and not delete them, unless its endpoint is unusable.
THEOREM WholeOrNothingHolds == SettingsSpec => []WholeOrNothing
<1>1. SettingsInv => WholeOrNothing
  BY ValidStorage DEF SettingsInv, SettingsTypeOK, WholeOrNothing
<1> QED  BY <1>1, SettingsInvariance, PTL

\* A misspelt name of the environment never makes compose start a process that
\* should have the storage without the settings for it.
THEOREM NoTypoLosesStorageHolds == SettingsSpec => []NoTypoLosesStorage
<1>1. ASSUME SettingsInv, NEW p \in composed
      PROVE  \/ Stores(settings[p])
             \/ Missing(settings[p]) = {} /\ settings[p].r2[Endpoint] = "unusable"
             \/ settings[p].environment \in {"dev", "development", "test"}
  <2>1. settings[p] \in Environments /\ Valid(settings[p]) /\ Targets(settings[p]) # {}
    BY <1>1 DEF SettingsInv, SettingsTypeOK
  <2> QED  BY <2>1, ValidStorage, NameIsKnown
<1>2. SettingsInv => NoTypoLosesStorage
  BY <1>1 DEF NoTypoLosesStorage
<1> QED  BY <1>2, SettingsInvariance, PTL

-----------------------------------------------------------------------------
(***************************************************************************)
(* Migrations.  The row of the first revision and the extension are no     *)
(* one's: a command that began at base can insert the one and skip or      *)
(* create the other beside any other command.  The tables and the rows     *)
(* above the first are another matter: only one transaction at a time has  *)
(* moved among those rows, since it has the one that was committed, or has *)
(* created crane where there was none; and what that one sees of the       *)
(* tables is what the revision it has come to promises, up to its commit.  *)
(***************************************************************************)
Extension == {"postgis"}

Matches(objects, v) ==
  /\ Created(v) \subseteq objects \cup Extension
  /\ objects \subseteq Created(v) \cup Types \cup Extension

High(rows) == rows \ {1}

\* A command that has moved among the rows above the first.
Moved(r) == High(touched[r]) # {}

\* The revision whose objects a command sees, recorded or not.
Reached(r) ==
  IF ~ran[r] THEN At(r) ELSE IF At(r) < goal[r] THEN At(r) + 1 ELSE At(r) - 1

\* What it has created or dropped and not recorded.
Making(r) == IF ran[r] /\ At(r) < goal[r] THEN Creates[At(r) + 1] ELSE {}
Dropping(r) == IF ran[r] /\ goal[r] < At(r) THEN Drops[At(r)] ELSE {}

\* A command that is not under way holds nothing.
Idle(r) ==
  /\ ~ran[r] /\ heads[r] = {} /\ made[r] = {} /\ dropped[r] = {}
  /\ locked[r] = {} /\ touched[r] = {}

\* The objects of a command: it has locked what it creates, which nobody else
\* has; before it moves, they are those of the one revision it has run.
ObjectsInv(r) ==
  /\ r \notin active => Idle(r)
  /\ ran[r] => At(r) # goal[r]
  /\ made[r] \subseteq locked[r] /\ made[r] \cap schema = {}
  /\ At(r) < goal[r] => dropped[r] = {}
  /\ goal[r] < At(r) => made[r] = {}
  /\ ~Moved(r) => /\ made[r] \ Extension = Making(r) \ Extension
                  /\ dropped[r] \ Extension = Dropping(r) \ Extension
  /\ Moved(r) => Matches(Seen(r), Reached(r))

\* The rows of a command: it believes in one row above the first at most, and
\* once it has moved that is its own, and the committed one is locked.
RowsInv(r) ==
  /\ heads[r] \subseteq {1, At(r)}
  /\ Moved(r) => /\ At(r) >= 2 => At(r) \in touched[r]
                 /\ High(version) \subseteq touched[r]
                 /\ 2 \in touched[r] \/ High(version) # {}

MigrationInv ==
  /\ MigrationTypeOK
  /\ Matches(schema, Latest(version))
  /\ version \subseteq {1, Latest(version)}
  /\ \A r, s \in Runs : r # s => /\ locked[r] \cap locked[s] = {}
                                 /\ touched[r] \cap touched[s] = {}
                                 /\ ~(Moved(r) /\ Moved(s))
  /\ \A r \in Runs : ObjectsInv(r) /\ RowsInv(r)

\* The chain has seven revisions.
LEMMA ChainLength ==
  /\ Len(Creates) = 7 /\ DOMAIN Creates = 1..7
  /\ Versions = 0..7 /\ Revisions = 1..7
BY DEF Creates, Versions, Revisions

\* The latest of some rows is one of them, if there are any, and no other is
\* later.
LEMMA LatestRow ==
  ASSUME NEW rows \in SUBSET (1..7)
  PROVE  /\ Latest(rows) \in 0..7 /\ Latest(rows) \in rows \cup {0}
         /\ \A w \in rows : w <= Latest(rows)
<1> DEFINE P(v) == v \in rows \cup {0} /\ \A w \in rows : w <= v
<1>1. \E v \in 0..7 : P(v)
  <2>1. CASE 7 \in rows  BY <2>1
  <2>2. CASE 7 \notin rows /\ 6 \in rows  BY <2>2
  <2>3. CASE 7 \notin rows /\ 6 \notin rows /\ 5 \in rows  BY <2>3
  <2>4. CASE rows \subseteq 1..4 /\ 4 \in rows  BY <2>4
  <2>5. CASE rows \subseteq 1..3 /\ 3 \in rows  BY <2>5
  <2>6. CASE rows \subseteq 1..2 /\ 2 \in rows  BY <2>6
  <2>7. CASE rows \subseteq {1} /\ 1 \in rows  BY <2>7
  <2>8. CASE rows = {}  BY <2>8
  <2> QED  BY <2>1, <2>2, <2>3, <2>4, <2>5, <2>6, <2>7, <2>8
<1>2. Latest(rows) = CHOOSE v \in 0..7 : P(v)
  BY ChainLength DEF Latest
<1> HIDE DEF P
<1>3. Latest(rows) \in 0..7 /\ P(Latest(rows))
  BY <1>1, <1>2
<1> QED  BY <1>3 DEF P

\* It is the only one of which this is true.
LEMMA LatestIs ==
  ASSUME NEW rows \in SUBSET (1..7), NEW v \in 0..7, v \in rows \cup {0},
         \A w \in rows : w <= v
  PROVE  Latest(rows) = v
<1>1. Latest(rows) \in 0..7 /\ Latest(rows) \in rows \cup {0}
      /\ \A w \in rows : w <= Latest(rows)
  BY LatestRow
<1> QED  BY <1>1

\* What is there after a revision is what was there before it and what it
\* creates.
LEMMA CreatedGrows ==
  ASSUME NEW k \in 1..7
  PROVE  Created(k) = Created(k - 1) \cup Creates[k]
<1>1. 1..k = (1..(k - 1)) \cup {k}
  OBVIOUS
<1> QED  BY <1>1 DEF Created

\* What one revision creates no earlier one does.
LEMMA RevisionsDisjoint ==
  ASSUME NEW j \in 1..7, NEW k \in 1..7, j < k
  PROVE  Creates[j] \cap Creates[k] = {}
BY DEF Creates, AddExtensions, InitialCraneTable, AddGoneReport, AddCranePhoto,
       CreateOutboxJob, AddAdminAccounts, AddPhotoReports

\* A revision creates objects of the database, and downgrade() drops what it
\* created but for types.  The first one is about the extension alone.
LEMMA RevisionObjects ==
  ASSUME NEW k \in 1..7
  PROVE  /\ Creates[k] \subseteq Objects
         /\ Drops[k] = Creates[k] \ Types
         /\ Refers[k] \subseteq Objects
         /\ k = 1 => Creates[k] = Extension
<1>1. Creates[k] \subseteq Objects
  BY ChainLength DEF Objects, Created
<1>2. Drops[k] = Creates[k] \ Types
  BY ChainLength DEF Drops
<1>3. Refers[k] \subseteq {"postgis", "crane", "crane_photo"}
  BY DEF Refers
<1>4. {"postgis", "crane", "crane_photo"} \subseteq Creates[1] \cup Creates[2] \cup Creates[4]
  BY DEF Creates, AddExtensions, InitialCraneTable, AddCranePhoto
<1>5. {"postgis", "crane", "crane_photo"} \subseteq Objects
  BY <1>4, ChainLength DEF Objects, Created
<1>6. Creates[1] = Extension
  BY DEF Creates, AddExtensions, Extension
<1> QED  BY <1>1, <1>2, <1>3, <1>5, <1>6

\* Whether objects match says nothing of the extension.
LEMMA UpToExtension ==
  ASSUME NEW these, NEW those, NEW v, Matches(these, v),
         these \ Extension = those \ Extension
  PROVE  Matches(those, v)
BY DEF Matches

\* Nor does it tell base from the first revision.
LEMMA LowMatches ==
  ASSUME NEW objects, NEW v \in 0..1, NEW w \in 0..1, Matches(objects, v)
  PROVE  Matches(objects, w)
<1>1. Created(1) = Created(0) \cup Extension
  BY CreatedGrows, RevisionObjects
<1> QED  BY <1>1 DEF Matches

\* So that only the rows above the first tell what matches.
LEMMA HighMatches ==
  ASSUME NEW objects, NEW these \in SUBSET (1..7), NEW those \in SUBSET (1..7),
         High(these) = High(those), Matches(objects, Latest(these))
  PROVE  Matches(objects, Latest(those))
<1>1. /\ Latest(these) \in 0..7 /\ Latest(these) \in these \cup {0}
      /\ \A w \in these : w <= Latest(these)
      /\ Latest(those) \in 0..7 /\ Latest(those) \in those \cup {0}
      /\ \A w \in those : w <= Latest(those)
  BY LatestRow
<1>2. CASE Latest(these) >= 2
  BY <1>1, <1>2 DEF High
<1>3. CASE Latest(these) < 2
  <2>1. Latest(these) \in 0..1 /\ Latest(those) \in 0..1
    BY <1>1, <1>3 DEF High
  <2> QED  BY <2>1, LowMatches
<1> QED  BY <1>1, <1>2, <1>3

\* A revision run on a matching database leaves it matching the next version.
LEMMA UpgradeMatches ==
  ASSUME NEW objects, NEW k \in 1..7, Matches(objects, k - 1)
  PROVE  Matches(objects \cup Creates[k], k)
BY CreatedGrows DEF Matches

\* Its downgrade leaves a matching one matching the version before.
LEMMA DowngradeMatches ==
  ASSUME NEW objects, NEW k \in 1..7, Matches(objects, k)
  PROVE  Matches(objects \ Drops[k], k - 1)
<1>1. Created(k - 1) \cap Creates[k] = {}
  BY RevisionsDisjoint DEF Created
<1> QED  BY <1>1, CreatedGrows, RevisionObjects DEF Matches

\* A database without crane has no revision above the first.
LEMMA CraneIsSecond ==
  ASSUME NEW objects, NEW v \in 0..7, Matches(objects, v), "crane" \notin objects
  PROVE  v <= 1
<1>1. "crane" \in Creates[2]
  BY DEF Creates, InitialCraneTable
<1>2. ASSUME v >= 2 PROVE "crane" \in Created(v)
  <2>1. 2 \in 1..v
    BY <1>2
  <2> QED  BY <1>1, <2>1 DEF Created
<1> QED  BY <1>2 DEF Matches, Extension

\* The types, in the numbers of the chain, and the revision a command is at.
LEMMA CommandTypes ==
  ASSUME MigrationTypeOK, NEW r \in Runs
  PROVE  /\ version \subseteq 1..7 /\ heads[r] \subseteq 1..7 /\ touched[r] \subseteq 1..7
         /\ goal[r] \in 0..7 /\ ran[r] \in BOOLEAN
         /\ At(r) \in 0..7 /\ At(r) \in heads[r] \cup {0}
         /\ \A w \in heads[r] : w <= At(r)
<1>1. heads[r] \subseteq 1..7
  BY ChainLength DEF MigrationTypeOK
<1> QED  BY <1>1, LatestRow, ChainLength DEF MigrationTypeOK, At

\* A database is created with what its version promises.
LEMMA MigrationStarts ==
  ASSUME NEW v \in Versions, MigrationInit(v)
  PROVE  MigrationInv
<1>1. Created(v) \subseteq Objects /\ "postgis" \in Objects /\ v \in 0..7
  BY ChainLength DEF Created, Objects, Creates, AddExtensions
<1>2. MigrationTypeOK
  BY <1>1, ChainLength DEF MigrationInit, MigrationTypeOK
<1>3. version = {v} \ {0} /\ Latest(version) = v
  BY <1>1, LatestIs DEF MigrationInit
<1>4. Matches(schema, Latest(version)) /\ version \subseteq {1, Latest(version)}
  BY <1>3 DEF MigrationInit, Matches, Extension
<1>5. \A r \in Runs : Idle(r) /\ ~Moved(r)
  BY DEF MigrationInit, Idle, Moved, High
<1>6. \A r \in Runs : ObjectsInv(r) /\ RowsInv(r)
  BY <1>5 DEF ObjectsInv, RowsInv, Idle, Making, Dropping
<1> QED  BY <1>2, <1>4, <1>5, <1>6 DEF MigrationInv, Idle

\* A step that is a command's own leaves the others theirs.
LEMMA OthersKeep ==
  ASSUME MigrationInv, NEW r \in Runs, NEW s \in Runs, s # r,
         s \in active' <=> s \in active,
         UNCHANGED <<schema, version, goal[s], heads[s], ran[s], made[s], dropped[s],
                     locked[s], touched[s]>>
  PROVE  ObjectsInv(s)' /\ RowsInv(s)' /\ (Moved(s)' <=> Moved(s))
BY DEF MigrationInv, ObjectsInv, RowsInv, Idle, Moved, Making, Dropping, Reached, Seen, At,
       Matches, High

\* upgrade() of a revision.
LEMMA UpgradeInv ==
  ASSUME MigrationInv, NEW r \in Runs, Upgrade(r)
  PROVE  MigrationInv'
<1> DEFINE k == At(r) + 1
<1> DEFINE new == Creates[k] \ Seen(r)
<1> DEFINE held == Holds(k, new)
<1>1. /\ MigrationTypeOK /\ ObjectsInv(r) /\ RowsInv(r)
      /\ \A s \in Runs : s # r => /\ locked[r] \cap locked[s] = {}
                                  /\ touched[r] \cap touched[s] = {}
  BY DEF MigrationInv
<1>2. /\ r \in active /\ ~ran[r] /\ At(r) < goal[r]
      /\ Free(r, held)
      /\ Creates[k] \ new \subseteq Extension
      /\ made' = [made EXCEPT ![r] = @ \cup new]
      /\ locked' = [locked EXCEPT ![r] = @ \cup held]
      /\ ran' = [ran EXCEPT ![r] = TRUE]
      /\ UNCHANGED <<schema, version, active, goal, heads, dropped, touched>>
  BY DEF Upgrade, Extension
<1>3. k \in 1..7 /\ At(r) = k - 1 /\ At(r) \in 0..7
  BY <1>1, <1>2, CommandTypes
<1>4. new \subseteq Objects /\ new \subseteq held /\ held \subseteq Objects
  BY <1>3, RevisionObjects DEF Holds
<1>5. new \cap Seen(r) = {}
  OBVIOUS
<1> HIDE DEF k, new, held
<1>6. MigrationTypeOK'
  BY <1>1, <1>2, <1>4 DEF MigrationTypeOK
<1>7. \A s \in Runs \ {r} : ObjectsInv(s)' /\ RowsInv(s)' /\ (Moved(s)' <=> Moved(s))
  BY <1>2, <1>6, OthersKeep, <1>1 DEF MigrationTypeOK
<1>8. /\ At(r)' = At(r) /\ (Moved(r)' <=> Moved(r)) /\ ran'[r] = TRUE /\ goal'[r] = goal[r]
      /\ made'[r] = made[r] \cup new /\ dropped'[r] = dropped[r]
      /\ locked'[r] = locked[r] \cup held
  BY <1>1, <1>2 DEF At, Moved, MigrationTypeOK
<1>9. Seen(r)' = Seen(r) \cup new
  BY <1>2, <1>8 DEF Seen
<1>10. new \cap schema = {}
  BY <1>1, <1>2, <1>5 DEF ObjectsInv, Seen
<1>11. ASSUME ~Moved(r)
       PROVE  /\ made'[r] \ Extension = Creates[k] \ Extension
              /\ dropped'[r] \ Extension = {}
  <2>1. made[r] \ Extension = {} /\ dropped[r] \ Extension = {}
    BY <1>1, <1>2, <1>11 DEF ObjectsInv, Making, Dropping
  <2>2. new \ Extension = Creates[k] \ Extension
    BY <1>2, <1>4 DEF new
  <2> QED  BY <1>8, <2>1, <2>2
<1>12. Making(r)' = Creates[k] /\ Dropping(r)' = {} /\ Reached(r)' = k
  BY <1>1, <1>2, <1>3, <1>8, CommandTypes DEF Making, Dropping, Reached
<1>13. ASSUME Moved(r) PROVE Matches(Seen(r)', k)
  <2>1. Matches(Seen(r), k - 1)
    BY <1>1, <1>2, <1>3, <1>13 DEF ObjectsInv, Reached
  <2>2. Matches(Seen(r) \cup Creates[k], k)
    BY <1>3, <2>1, UpgradeMatches
  <2>3. (Seen(r) \cup Creates[k]) \ Extension = (Seen(r) \cup new) \ Extension
    BY <1>2 DEF new
  <2>4. Matches(Seen(r) \cup new, k)
    BY <2>2, <2>3, UpToExtension
  <2> QED  BY <1>9, <2>4
<1>14. ObjectsInv(r)'
  <2>1. (Matches(Seen(r), Reached(r)))' <=> Matches(Seen(r)', Reached(r)')
    BY DEF Matches
  <2>2. /\ At(r) # goal[r] /\ ~(goal'[r] < At(r)')
        /\ At(r)' < goal'[r] => dropped'[r] = {}
    BY <1>1, <1>2, <1>3, <1>8, CommandTypes DEF ObjectsInv
  <2>3. made'[r] \subseteq locked'[r] /\ made'[r] \cap schema' = {}
    BY <1>1, <1>2, <1>4, <1>8, <1>10 DEF ObjectsInv
  <2> QED
    BY <1>2, <1>8, <1>11, <1>12, <1>13, <2>1, <2>2, <2>3 DEF ObjectsInv
<1>15. RowsInv(r)'
  BY <1>1, <1>2, <1>8 DEF RowsInv, High
<1>16. \A s \in Runs : s # r => locked'[r] \cap locked'[s] = {}
  BY <1>1, <1>2, <1>8 DEF Free, MigrationTypeOK
<1> QED
  BY <1>2, <1>6, <1>7, <1>8, <1>14, <1>15, <1>16
     DEF MigrationInv, Matches, MigrationTypeOK

\* downgrade() of a revision.
LEMMA DowngradeInv ==
  ASSUME MigrationInv, NEW r \in Runs, Downgrade(r)
  PROVE  MigrationInv'
<1> DEFINE k == At(r)
<1> DEFINE old == Drops[k] \cap Seen(r)
<1> DEFINE held == Holds(k, old)
<1>1. /\ MigrationTypeOK /\ ObjectsInv(r) /\ RowsInv(r)
      /\ \A s \in Runs : s # r => /\ locked[r] \cap locked[s] = {}
                                  /\ touched[r] \cap touched[s] = {}
  BY DEF MigrationInv
<1>2. /\ r \in active /\ ~ran[r] /\ goal[r] < At(r)
      /\ Free(r, held)
      /\ Drops[k] \ old \subseteq Extension
      /\ dropped' = [dropped EXCEPT ![r] = @ \cup old]
      /\ locked' = [locked EXCEPT ![r] = @ \cup held]
      /\ ran' = [ran EXCEPT ![r] = TRUE]
      /\ UNCHANGED <<schema, version, active, goal, heads, made, touched>>
  BY DEF Downgrade, Extension
<1>3. k \in 1..7 /\ At(r) = k /\ goal[r] \in 0..7
  BY <1>1, <1>2, CommandTypes
<1>4. old \subseteq Objects /\ held \subseteq Objects
  BY <1>3, RevisionObjects DEF Holds
<1> HIDE DEF k, old, held
<1>5. MigrationTypeOK'
  BY <1>1, <1>2, <1>4 DEF MigrationTypeOK
<1>6. \A s \in Runs \ {r} : ObjectsInv(s)' /\ RowsInv(s)' /\ (Moved(s)' <=> Moved(s))
  BY <1>2, OthersKeep, <1>1 DEF MigrationTypeOK
<1>7. /\ At(r)' = At(r) /\ (Moved(r)' <=> Moved(r)) /\ ran'[r] = TRUE /\ goal'[r] = goal[r]
      /\ dropped'[r] = dropped[r] \cup old /\ made'[r] = made[r]
      /\ locked'[r] = locked[r] \cup held
  BY <1>1, <1>2 DEF At, Moved, MigrationTypeOK
<1>8. ASSUME ~Moved(r)
      PROVE  /\ made'[r] \ Extension = {}
             /\ dropped'[r] \ Extension = Drops[k] \ Extension
  <2>1. made[r] \ Extension = {} /\ dropped[r] \ Extension = {}
    BY <1>1, <1>2, <1>8 DEF ObjectsInv, Making, Dropping
  <2>2. old \ Extension = Drops[k] \ Extension
    BY <1>2 DEF old
  <2> QED  BY <1>7, <2>1, <2>2
<1>9. Dropping(r)' = Drops[k] /\ Making(r)' = {} /\ Reached(r)' = k - 1
  BY <1>2, <1>3, <1>7 DEF Making, Dropping, Reached
<1>10. ASSUME Moved(r) PROVE Matches(Seen(r)', k - 1)
  <2>1. Matches(Seen(r), k)
    BY <1>1, <1>2, <1>3, <1>10 DEF ObjectsInv, Reached
  <2>2. Matches(Seen(r) \ Drops[k], k - 1)
    BY <1>3, <2>1, DowngradeMatches
  <2>3. Seen(r)' = Seen(r) \ old
    BY <1>1, <1>2, <1>7 DEF Seen, ObjectsInv
  <2>4. (Seen(r) \ Drops[k]) \ Extension = (Seen(r) \ old) \ Extension
    BY <1>2 DEF old
  <2>5. Matches(Seen(r) \ old, k - 1)
    BY <2>2, <2>4, UpToExtension
  <2> QED  BY <2>3, <2>5
<1>11. ObjectsInv(r)'
  <2>1. (Matches(Seen(r), Reached(r)))' <=> Matches(Seen(r)', Reached(r)')
    BY DEF Matches
  <2>2. /\ At(r) # goal[r] /\ ~(At(r)' < goal'[r])
        /\ goal'[r] < At(r)' => made'[r] = {}
    BY <1>1, <1>2, <1>3, <1>7 DEF ObjectsInv
  <2>3. made'[r] \subseteq locked'[r] /\ made'[r] \cap schema' = {}
    BY <1>1, <1>2, <1>7 DEF ObjectsInv
  <2> QED
    BY <1>2, <1>7, <1>8, <1>9, <1>10, <2>1, <2>2, <2>3 DEF ObjectsInv
<1>12. RowsInv(r)'
  BY <1>1, <1>2, <1>7 DEF RowsInv, High
<1>13. \A s \in Runs : s # r => locked'[r] \cap locked'[s] = {}
  BY <1>1, <1>2, <1>7 DEF Free, MigrationTypeOK
<1> QED
  BY <1>2, <1>5, <1>6, <1>7, <1>11, <1>12, <1>13
     DEF MigrationInv, Matches, MigrationTypeOK

\* What a command has run and not recorded, it has run on the committed tables
\* as long as it has not moved.
LEMMA SeenBeforeMove ==
  ASSUME NEW r \in Runs, ObjectsInv(r), ~Moved(r)
  PROVE  Seen(r) \ Extension
           = ((schema \ Dropping(r)) \cup Making(r)) \ Extension
BY DEF ObjectsInv, Seen

\* The record of an upgrade.
LEMMA RecordUpgradeInv ==
  ASSUME MigrationInv, NEW r \in Runs, RecordUpgrade(r)
  PROVE  MigrationInv'
<1> DEFINE k == At(r) + 1
<1> DEFINE old == {At(r)} \ {0}
<1>1. /\ MigrationTypeOK /\ ObjectsInv(r) /\ RowsInv(r)
      /\ \A s \in Runs : s # r => /\ touched[r] \cap touched[s] = {}
                                  /\ ~(Moved(r) /\ Moved(s))
  BY DEF MigrationInv
<1>2. /\ r \in active /\ ran[r] /\ At(r) < goal[r]
      /\ FreeRows(r, old \cup {k})
      /\ old \subseteq Rows(r)
      /\ heads' = [heads EXCEPT ![r] = (@ \ old) \cup {k}]
      /\ touched' = [touched EXCEPT ![r] = @ \cup old \cup {k}]
      /\ ran' = [ran EXCEPT ![r] = FALSE]
      /\ UNCHANGED <<schema, version, active, goal, made, dropped, locked>>
  BY DEF RecordUpgrade, Move
<1>3. /\ k \in 1..7 /\ At(r) = k - 1 /\ goal[r] \in 0..7 /\ k <= goal[r]
      /\ heads[r] \subseteq 1..7 /\ touched[r] \subseteq 1..7 /\ version \subseteq 1..7
      /\ \A w \in heads[r] : w <= k - 1
  BY <1>1, <1>2, CommandTypes
<1>4. old \subseteq 1..7 /\ (k = 1 => old = {}) /\ (k >= 2 => old = {k - 1})
  BY <1>3
<1> HIDE DEF k, old
<1>5. MigrationTypeOK'
  <2> DEFINE H == (heads[r] \ old) \cup {k}
             T == touched[r] \cup old \cup {k}
  <2>1. H \in SUBSET Revisions /\ T \in SUBSET Revisions
    BY <1>3, <1>4, ChainLength
  <2>2. heads' = [heads EXCEPT ![r] = H] /\ touched' = [touched EXCEPT ![r] = T]
    BY <1>2
  <2> HIDE DEF H, T
  <2>3. heads' \in [Runs -> SUBSET Revisions] /\ touched' \in [Runs -> SUBSET Revisions]
    BY <1>1, <2>1, <2>2 DEF MigrationTypeOK
  <2>4. ran' \in [Runs -> BOOLEAN]
    BY <1>1, <1>2 DEF MigrationTypeOK
  <2> QED  BY <1>1, <1>2, <2>3, <2>4 DEF MigrationTypeOK
<1>6. \A s \in Runs \ {r} : ObjectsInv(s)' /\ RowsInv(s)' /\ (Moved(s)' <=> Moved(s))
  BY <1>2, OthersKeep, <1>1 DEF MigrationTypeOK
<1>7. /\ ran'[r] = FALSE /\ goal'[r] = goal[r]
      /\ heads'[r] = (heads[r] \ old) \cup {k}
      /\ touched'[r] = touched[r] \cup old \cup {k}
      /\ made'[r] = made[r] /\ dropped'[r] = dropped[r] /\ locked'[r] = locked[r]
  BY <1>1, <1>2 DEF MigrationTypeOK
<1>8. At(r)' = k
  <2>1. /\ heads'[r] \in SUBSET (1..7) /\ k \in 0..7 /\ k \in heads'[r] \cup {0}
        /\ \A w \in heads'[r] : w <= k
    BY <1>3, <1>7
  <2>2. Latest(heads'[r]) = k
    BY ONLY <2>1, LatestIs
  <2> QED  BY <2>2 DEF At
<1>9. heads'[r] \subseteq {1, k}
  BY <1>1, <1>3, <1>4, <1>7 DEF RowsInv
<1>10. Seen(r)' = Seen(r)
  BY <1>2, <1>7 DEF Seen
<1>11. /\ Making(r) = Creates[k] /\ Dropping(r) = {} /\ Reached(r) = k
       /\ Making(r)' = {} /\ Dropping(r)' = {} /\ Reached(r)' = k
  BY <1>2, <1>3, <1>7, <1>8 DEF Making, Dropping, Reached
<1>12. /\ High(touched[r]) \subseteq High(touched'[r])
       /\ k >= 2 => k \in High(touched'[r]) /\ k - 1 \in touched'[r]
       /\ k = 1 => High(touched'[r]) = High(touched[r])
  <2>1. High(touched[r]) \subseteq High(touched'[r])
    BY <1>7 DEF High
  <2>2. ASSUME k >= 2 PROVE k \in High(touched'[r]) /\ k - 1 \in touched'[r]
    BY <1>3, <1>4, <1>7, <2>2 DEF High
  <2>3. ASSUME k = 1 PROVE High(touched'[r]) = High(touched[r])
    BY <1>4, <1>7, <2>3 DEF High
  <2> QED  BY <2>1, <2>2, <2>3
\* The first move of a command above the first row.
<1>13. ASSUME k >= 2, ~Moved(r)
       PROVE  /\ Matches(Seen(r), k)
              /\ High(version) \subseteq touched'[r]
              /\ 2 \in touched'[r] \/ High(version) # {}
              /\ \A s \in Runs : s # r => ~Moved(s)
  <2>1. Matches(schema, Latest(version)) /\ version \subseteq {1, Latest(version)}
        /\ Latest(version) \in 0..7 /\ Latest(version) \in version \cup {0}
        /\ \A w \in version : w <= Latest(version)
    BY <1>3, LatestRow DEF MigrationInv
  <2>2. k - 1 \in Rows(r)
    BY <1>2, <1>4, <1>13
  <2>3. \A s \in Runs : s # r => k - 1 \notin touched[s] /\ k \notin touched[s]
    BY <1>2, <1>4, <1>13 DEF FreeRows
  <2>4. \A s \in Runs : Moved(s) => /\ High(version) \subseteq touched[s]
                                    /\ 2 \in touched[s] \/ High(version) # {}
    BY DEF MigrationInv, RowsInv
  <2>5. CASE k >= 3
    <3>1. k - 1 \in version
      BY <1>3, <1>13, <2>2, <2>5 DEF Rows, Moved, High
    <3>2. High(version) = {k - 1} /\ Latest(version) = k - 1
      <4>1. k - 1 # 1 /\ version \subseteq {1, Latest(version)}
        BY <1>3, <2>1, <2>5
      <4>2. Latest(version) = k - 1
        BY <3>1, <4>1
      <4> QED
        BY ZenonT(20), <3>1, <4>1, <4>2 DEF High
    <3>3. Matches(schema \cup Creates[k], k)
      BY <1>3, <2>1, <3>2, UpgradeMatches
    <3> QED
      BY <1>1, <1>11, <1>12, <1>13, <2>3, <2>4, <3>2, <3>3, SeenBeforeMove, UpToExtension
  <2>6. CASE k = 2
    <3>1. "crane" \in Creates[2] /\ "crane" \notin Extension
      BY DEF Creates, InitialCraneTable, Extension
    <3>2. "crane" \notin schema
      BY <1>1, <1>11, <1>13, <2>6, <3>1 DEF ObjectsInv
    <3>3. Latest(version) \in 0..1
      BY <2>1, <3>2, CraneIsSecond
    <3>4. High(version) = {}
      BY <1>3, <2>1, <3>3 DEF High
    <3>5. k - 1 = 1 /\ Matches(schema, 1)
      BY <2>1, <2>6, <3>3, LowMatches
    <3>6. Matches(schema \cup Creates[k], k)
      BY <1>3, <3>5, UpgradeMatches
    <3> QED
      BY <1>1, <1>7, <1>11, <1>13, <2>3, <2>4, <2>6, <3>4, <3>6, SeenBeforeMove, UpToExtension
  <2> QED  BY <1>3, <1>13, <2>5, <2>6
<1>14. ASSUME Moved(r)'
       PROVE  Matches(Seen(r)', k)
  <2>1. CASE Moved(r)
    BY <1>1, <1>10, <1>11, <2>1 DEF ObjectsInv
  <2>2. CASE ~Moved(r)
    BY <1>3, <1>10, <1>12, <1>13, <1>14, <2>2 DEF Moved
  <2> QED  BY <2>1, <2>2
<1>15. ObjectsInv(r)'
  <2>1. (Matches(Seen(r), Reached(r)))' <=> Matches(Seen(r)', Reached(r)')
    BY DEF Matches
  <2>2. /\ ~(goal'[r] < At(r)')
        /\ dropped'[r] = {}
        /\ made'[r] \subseteq locked'[r] /\ made'[r] \cap schema' = {}
    BY <1>1, <1>2, <1>3, <1>7, <1>8 DEF ObjectsInv
  <2>3. ASSUME ~Moved(r)'
        PROVE  made'[r] \ Extension = {}
    <3>1. k = 1 /\ ~Moved(r)
      BY <1>3, <1>12, <2>3 DEF Moved
    <3> QED  BY <1>1, <1>7, <1>11, <3>1, RevisionObjects DEF ObjectsInv
  <2> QED
    BY <1>2, <1>7, <1>11, <1>14, <2>1, <2>2, <2>3 DEF ObjectsInv
<1>16. RowsInv(r)'
  <2>1. ASSUME Moved(r)'
        PROVE  /\ High(version) \subseteq touched'[r]
               /\ 2 \in touched'[r] \/ High(version) # {}
    <3>1. CASE Moved(r)
      BY <1>1, <1>7, <3>1 DEF RowsInv
    <3>2. CASE ~Moved(r)
      BY <1>3, <1>12, <1>13, <2>1, <3>2 DEF Moved
    <3> QED  BY <3>1, <3>2
  <2> QED  BY <1>2, <1>7, <1>8, <1>9, <2>1 DEF RowsInv, High
<1>17. \A s \in Runs : s # r => /\ touched'[r] \cap touched'[s] = {}
                                /\ ~(Moved(r)' /\ Moved(s)')
  <2>1. \A s \in Runs : s # r => touched'[r] \cap touched'[s] = {}
    BY <1>1, <1>2, <1>7 DEF FreeRows, MigrationTypeOK
  <2>2. CASE Moved(r)
    BY <1>1, <1>6, <2>1, <2>2
  <2>3. CASE ~Moved(r)
    BY <1>3, <1>6, <1>12, <1>13, <2>1, <2>3 DEF Moved
  <2> QED  BY <2>2, <2>3
<1> QED
  BY <1>2, <1>5, <1>6, <1>7, <1>15, <1>16, <1>17
     DEF MigrationInv, Matches, MigrationTypeOK

\* The record of a downgrade.
LEMMA RecordDowngradeInv ==
  ASSUME MigrationInv, NEW r \in Runs, RecordDowngrade(r)
  PROVE  MigrationInv'
<1> DEFINE k == At(r)
<1> DEFINE new == {k - 1} \ ({0} \cup heads[r])
<1>1. /\ MigrationTypeOK /\ ObjectsInv(r) /\ RowsInv(r)
      /\ \A s \in Runs : s # r => /\ touched[r] \cap touched[s] = {}
                                  /\ ~(Moved(r) /\ Moved(s))
  BY DEF MigrationInv
<1>2. /\ r \in active /\ ran[r] /\ goal[r] < At(r)
      /\ FreeRows(r, {k} \cup new)
      /\ k \in Rows(r)
      /\ heads' = [heads EXCEPT ![r] = (@ \ {k}) \cup new]
      /\ touched' = [touched EXCEPT ![r] = @ \cup {k} \cup new]
      /\ ran' = [ran EXCEPT ![r] = FALSE]
      /\ UNCHANGED <<schema, version, active, goal, made, dropped, locked>>
  BY DEF RecordDowngrade, Move
<1>3. /\ k \in 1..7 /\ At(r) = k /\ goal[r] \in 0..7 /\ goal[r] <= k - 1 /\ k - 1 \in 0..7
      /\ heads[r] \subseteq 1..7 /\ touched[r] \subseteq 1..7 /\ version \subseteq 1..7
      /\ k \in heads[r] /\ heads[r] \subseteq {1, k}
  BY <1>1, <1>2, CommandTypes DEF RowsInv
<1>4. /\ new \subseteq 1..7 /\ new \subseteq {k - 1}
      /\ k >= 3 => new = {k - 1}
      /\ k = 2 /\ 1 \notin heads[r] => new = {1}
      /\ k = 1 => new = {}
  BY <1>3
<1> HIDE DEF k, new
<1>5. MigrationTypeOK'
  <2> DEFINE H == (heads[r] \ {k}) \cup new
             T == touched[r] \cup {k} \cup new
  <2>1. H \in SUBSET Revisions /\ T \in SUBSET Revisions
    BY <1>3, <1>4, ChainLength
  <2>2. heads' = [heads EXCEPT ![r] = H] /\ touched' = [touched EXCEPT ![r] = T]
    BY <1>2
  <2> HIDE DEF H, T
  <2>3. heads' \in [Runs -> SUBSET Revisions] /\ touched' \in [Runs -> SUBSET Revisions]
    BY <1>1, <2>1, <2>2 DEF MigrationTypeOK
  <2>4. ran' \in [Runs -> BOOLEAN]
    BY <1>1, <1>2 DEF MigrationTypeOK
  <2> QED  BY <1>1, <1>2, <2>3, <2>4 DEF MigrationTypeOK
<1>6. \A s \in Runs \ {r} : ObjectsInv(s)' /\ RowsInv(s)' /\ (Moved(s)' <=> Moved(s))
  BY <1>2, OthersKeep, <1>1 DEF MigrationTypeOK
<1>7. /\ ran'[r] = FALSE /\ goal'[r] = goal[r]
      /\ heads'[r] = (heads[r] \ {k}) \cup new
      /\ touched'[r] = touched[r] \cup {k} \cup new
      /\ made'[r] = made[r] /\ dropped'[r] = dropped[r] /\ locked'[r] = locked[r]
  BY <1>1, <1>2 DEF MigrationTypeOK
<1>8. At(r)' = k - 1 /\ heads'[r] \subseteq {1, k - 1}
  <2>1. /\ heads'[r] \in SUBSET (1..7) /\ heads'[r] \subseteq {1, k - 1}
        /\ k - 1 \in heads'[r] \cup {0} /\ \A w \in heads'[r] : w <= k - 1
    <3>0. heads[r] \ {k} \subseteq {1}
      BY <1>3
    <3>1. CASE k >= 3
      <4>1. heads'[r] = (heads[r] \ {k}) \cup {k - 1}
        BY <1>4, <1>7, <3>1
      <4> QED  BY <1>3, <3>0, <3>1, <4>1
    <3>2. CASE k = 2
      <4>1. new \subseteq {1} /\ k - 1 = 1 /\ 1 # k
        BY <1>4, <3>2
      <4>2. heads'[r] \subseteq {1}
        BY <1>7, <3>0, <4>1
      <4>3. 1 \in heads'[r]
        BY <1>4, <1>7, <3>2, <4>1
      <4> QED  BY <4>1, <4>2, <4>3
    <3>3. CASE k = 1
      <4>1. heads'[r] = {}
        BY <1>4, <1>7, <3>0, <3>3
      <4> QED  BY <3>3, <4>1
    <3> QED  BY <1>3, <3>1, <3>2, <3>3
  <2>2. k - 1 \in 0..7
    BY <1>3
  <2>3. Latest(heads'[r]) = k - 1
    BY ONLY <2>1, <2>2, LatestIs
  <2> QED  BY <2>1, <2>3 DEF At
<1>9. Seen(r)' = Seen(r)
  BY <1>2, <1>7 DEF Seen
<1>10. /\ Making(r) = {} /\ Dropping(r) = Drops[k] /\ Reached(r) = k - 1
       /\ Making(r)' = {} /\ Dropping(r)' = {} /\ Reached(r)' = k - 1
  BY <1>2, <1>3, <1>7, <1>8 DEF Making, Dropping, Reached
<1>11. /\ k >= 2 => k \in High(touched'[r])
       /\ k = 1 => High(touched'[r]) = High(touched[r])
  <2>1. ASSUME k >= 2 PROVE k \in High(touched'[r])
    BY <1>7, <2>1 DEF High
  <2>2. ASSUME k = 1 PROVE High(touched'[r]) = High(touched[r])
    BY <1>4, <1>7, <2>2 DEF High
  <2> QED  BY <2>1, <2>2
\* The first move of a command above the first row.
<1>12. ASSUME k >= 2, ~Moved(r)
       PROVE  /\ Matches(Seen(r), k - 1)
              /\ High(version) = {k}
              /\ \A s \in Runs : s # r => ~Moved(s)
  <2>1. Matches(schema, Latest(version)) /\ version \subseteq {1, Latest(version)}
        /\ Latest(version) \in 0..7 /\ Latest(version) \in version \cup {0}
        /\ \A w \in version : w <= Latest(version)
    BY <1>3, LatestRow DEF MigrationInv
  <2>2. k \in version
    BY <1>2, <1>12 DEF Rows, Moved, High
  <2>3. High(version) = {k} /\ Latest(version) = k
    BY <1>3, <1>12, <2>1, <2>2 DEF High
  <2>4. \A s \in Runs : s # r => k \notin touched[s]
    BY <1>2 DEF FreeRows
  <2>5. \A s \in Runs : Moved(s) => High(version) \subseteq touched[s]
    BY DEF MigrationInv, RowsInv
  <2>6. Matches(schema \ Drops[k], k - 1)
    BY <1>3, <2>1, <2>3, DowngradeMatches
  <2> QED
    BY <1>1, <1>10, <1>12, <2>3, <2>4, <2>5, <2>6, SeenBeforeMove, UpToExtension
<1>13. ASSUME Moved(r)'
       PROVE  Matches(Seen(r)', k - 1)
  <2>1. CASE Moved(r)
    BY <1>1, <1>9, <1>10, <2>1 DEF ObjectsInv
  <2>2. CASE ~Moved(r)
    BY <1>3, <1>9, <1>11, <1>12, <1>13, <2>2 DEF Moved
  <2> QED  BY <2>1, <2>2
<1>14. ObjectsInv(r)'
  <2>1. (Matches(Seen(r), Reached(r)))' <=> Matches(Seen(r)', Reached(r)')
    BY DEF Matches
  <2>2. /\ ~(At(r)' < goal'[r])
        /\ made'[r] = {}
        /\ made'[r] \subseteq locked'[r] /\ made'[r] \cap schema' = {}
    BY <1>1, <1>2, <1>3, <1>7, <1>8 DEF ObjectsInv
  <2>3. ASSUME ~Moved(r)'
        PROVE  dropped'[r] \ Extension = {}
    <3>1. k = 1 /\ ~Moved(r)
      BY <1>3, <1>11, <2>3 DEF Moved
    <3> QED  BY <1>1, <1>3, <1>7, <1>10, <3>1, RevisionObjects DEF ObjectsInv
  <2> QED
    BY <1>2, <1>7, <1>10, <1>13, <2>1, <2>2, <2>3 DEF ObjectsInv
<1>15. RowsInv(r)'
  <2>1. ASSUME Moved(r)'
        PROVE  /\ High(version) \subseteq touched'[r]
               /\ 2 \in touched'[r] \/ High(version) # {}
    <3>1. CASE Moved(r)
      BY <1>1, <1>7, <3>1 DEF RowsInv
    <3>2. CASE ~Moved(r)
      BY <1>3, <1>7, <1>11, <1>12, <2>1, <3>2 DEF Moved
    <3> QED  BY <3>1, <3>2
  <2>2. At(r)' >= 2 => At(r)' \in touched'[r]
    BY <1>3, <1>4, <1>7, <1>8
  <2> QED  BY <1>2, <1>7, <1>8, <2>1, <2>2 DEF RowsInv, High
<1>16. \A s \in Runs : s # r => /\ touched'[r] \cap touched'[s] = {}
                                /\ ~(Moved(r)' /\ Moved(s)')
  <2>1. \A s \in Runs : s # r => touched'[r] \cap touched'[s] = {}
    BY <1>1, <1>2, <1>7 DEF FreeRows, MigrationTypeOK
  <2>2. CASE Moved(r)
    BY <1>1, <1>6, <2>1, <2>2
  <2>3. CASE ~Moved(r)
    BY <1>3, <1>6, <1>11, <1>12, <2>1, <2>3 DEF Moved
  <2> QED  BY <2>2, <2>3
<1> QED
  BY <1>2, <1>5, <1>6, <1>7, <1>14, <1>15, <1>16
     DEF MigrationInv, Matches, MigrationTypeOK

\* A command that ends holds nothing any more, and the others what they held.
LEMMA CommandEnds ==
  ASSUME MigrationInv, NEW r \in Runs, EndCommand(r), goal' = goal
  PROVE  /\ active' \subseteq Runs /\ r \notin active'
         /\ heads' \in [Runs -> SUBSET Revisions] /\ ran' \in [Runs -> BOOLEAN]
         /\ made' \in [Runs -> SUBSET Objects] /\ dropped' \in [Runs -> SUBSET Objects]
         /\ locked' \in [Runs -> SUBSET Objects] /\ touched' \in [Runs -> SUBSET Revisions]
         /\ Idle(r)' /\ ~Moved(r)' /\ ObjectsInv(r)' /\ RowsInv(r)'
         /\ \A s \in Runs \ {r} :
              /\ s \in active' <=> s \in active
              /\ UNCHANGED <<goal[s], heads[s], ran[s], made[s], dropped[s],
                             locked[s], touched[s]>>
<1>1. MigrationTypeOK
  BY DEF MigrationInv
<1>2. Idle(r)' /\ r \notin active'
  BY <1>1 DEF EndCommand, Idle, MigrationTypeOK
<1>3. ~Moved(r)'
  BY <1>2 DEF Idle, Moved, High
<1>4. ObjectsInv(r)' /\ RowsInv(r)'
  BY <1>2, <1>3 DEF ObjectsInv, RowsInv, Idle, Making, Dropping
<1> QED  BY <1>1, <1>2, <1>3, <1>4 DEF EndCommand, MigrationTypeOK

\* The transaction of a command commits.
LEMMA CommitInv ==
  ASSUME MigrationInv, NEW r \in Runs, Commit(r)
  PROVE  MigrationInv'
<1>1. /\ r \in active /\ ran[r] = FALSE /\ At(r) = goal[r]
      /\ schema' = Seen(r) /\ version' = Rows(r)
      /\ EndCommand(r) /\ goal' = goal
  BY DEF Commit, MigrationInv, MigrationTypeOK
<1>2. /\ MigrationTypeOK /\ ObjectsInv(r) /\ RowsInv(r)
      /\ Matches(schema, Latest(version)) /\ version \subseteq {1, Latest(version)}
  BY DEF MigrationInv
<1>3. /\ version \subseteq 1..7 /\ heads[r] \subseteq 1..7 /\ touched[r] \subseteq 1..7
      /\ At(r) \in 0..7 /\ At(r) \in heads[r] \cup {0}
  BY <1>2, CommandTypes
<1>4. version' \subseteq 1..7
  BY <1>1, <1>3 DEF Rows
<1>5. MigrationTypeOK'
  <2>1. schema' \subseteq Objects
    BY <1>1, <1>2 DEF MigrationTypeOK, Seen
  <2> QED  BY <1>1, <1>2, <1>4, <2>1, CommandEnds, ChainLength DEF MigrationTypeOK
<1>6. Reached(r) = At(r) /\ Making(r) = {} /\ Dropping(r) = {}
  BY <1>1 DEF Reached, Making, Dropping
\* A command that has not moved changes the extension and the first row at most.
<1>7. ASSUME ~Moved(r)
      PROVE  schema' \ Extension = schema \ Extension /\ High(version') = High(version)
  <2>1. Seen(r) \ Extension = schema \ Extension
    BY <1>2, <1>6, <1>7, SeenBeforeMove
  <2>2. High(Rows(r)) = High(version)
    BY <1>7 DEF Rows, Moved, High
  <2> QED  BY <1>1, <2>1, <2>2
\* One that has leaves a single row above the first, or none.
<1>8. ASSUME Moved(r)
      PROVE  High(version') = IF At(r) >= 2 THEN {At(r)} ELSE {}
  <2>1. High(version) \subseteq touched[r] /\ heads[r] \subseteq {1, At(r)}
        /\ (At(r) >= 2 => At(r) \in touched[r])
    BY <1>2, <1>8 DEF RowsInv
  <2>2. High(Rows(r)) = High(heads[r] \cap touched[r])
    BY <2>1 DEF Rows, High
  <2>3. CASE At(r) >= 2
    BY <1>1, <1>3, <2>1, <2>2, <2>3 DEF High
  <2>4. CASE ~(At(r) >= 2)
    BY <1>1, <1>3, <2>1, <2>2, <2>4 DEF High
  <2> QED  BY <2>3, <2>4
<1>9. Matches(schema', Latest(version'))
  <2>1. CASE Moved(r)
    <3>1. Matches(schema', At(r))
      BY <1>1, <1>2, <1>6, <2>1 DEF ObjectsInv
    <3>2. CASE At(r) >= 2
      <4>1. At(r) \in version' /\ \A w \in version' : w <= At(r)
        <5>1. version' \ {1} = {At(r)}
          BY <1>8, <2>1, <3>2 DEF High
        <5>2. \A w \in version' : w = 1 \/ w = At(r)
          BY <5>1
        <5> QED  BY <1>3, <3>2, <5>1, <5>2
      <4>2. Latest(version') = At(r)
        BY <1>3, <1>4, <4>1, LatestIs
      <4> QED  BY <3>1, <4>2
    <3>3. CASE ~(At(r) >= 2)
      <4>1. Latest(version') \in 0..1
        <5>1. Latest(version') \in version' \cup {0}
          BY <1>4, LatestRow
        <5> QED  BY <1>8, <2>1, <3>3, <5>1 DEF High
      <4>2. At(r) \in 0..1
        BY <1>3, <3>3
      <4> QED  BY <3>1, <4>1, <4>2, LowMatches
    <3> QED  BY <3>2, <3>3
  <2>2. CASE ~Moved(r)
    BY <1>2, <1>3, <1>4, <1>7, <2>2, HighMatches, UpToExtension
  <2> QED  BY <2>1, <2>2
<1>10. version' \subseteq {1, Latest(version')}
  <2>1. \A v, w \in High(version') : v = w
    <3>1. CASE Moved(r)
      BY <1>8, <3>1
    <3>2. CASE ~Moved(r)
      BY <1>2, <1>7, <3>2 DEF High
    <3> QED  BY <3>1, <3>2
  <2>2. Latest(version') \in version' \cup {0} /\ \A w \in version' : w <= Latest(version')
    BY <1>4, LatestRow
  <2> SUFFICES ASSUME NEW w \in version', w # 1
               PROVE  w = Latest(version')
    OBVIOUS
  <2>3. w \in High(version') /\ w >= 2 /\ w <= Latest(version')
    BY <1>4, <2>2 DEF High
  <2>4. Latest(version') \in High(version')
    BY <1>4, <2>2, <2>3 DEF High
  <2> QED  BY <2>1, <2>3, <2>4
\* What the others have is disjoint from what is committed.
<1>11. ASSUME NEW s \in Runs, s # r
       PROVE  ObjectsInv(s)' /\ RowsInv(s)' /\ (Moved(s)' <=> Moved(s))
  <2>1. /\ s \in active' <=> s \in active
        /\ UNCHANGED <<goal[s], heads[s], ran[s], made[s], dropped[s], locked[s], touched[s]>>
    BY <1>1, <1>11, CommandEnds
  <2>2. /\ ObjectsInv(s) /\ RowsInv(s)
        /\ locked[r] \cap locked[s] = {} /\ ~(Moved(r) /\ Moved(s))
    BY <1>11 DEF MigrationInv
  <2>3. made'[s] \cap schema' = {}
    BY <1>1, <1>2, <2>1, <2>2 DEF ObjectsInv, Seen
  <2>4. /\ At(s)' = At(s) /\ (Moved(s)' <=> Moved(s)) /\ Reached(s)' = Reached(s)
        /\ Making(s)' = Making(s) /\ Dropping(s)' = Dropping(s) /\ (Idle(s)' <=> Idle(s))
    BY <2>1 DEF At, Moved, Reached, Making, Dropping, Idle
  <2>5. ASSUME Moved(s)
        PROVE  /\ Matches(Seen(s)', Reached(s)')
               /\ High(version') = High(version)
    <3>1. schema' \ Extension = schema \ Extension /\ High(version') = High(version)
      BY <1>7, <2>2, <2>5
    <3>2. Seen(s)' \ Extension = Seen(s) \ Extension
      BY <2>1, <3>1 DEF Seen
    <3> QED  BY <2>2, <2>4, <2>5, <3>1, <3>2, UpToExtension DEF ObjectsInv
  <2>6. (Matches(Seen(s), Reached(s)))' <=> Matches(Seen(s)', Reached(s)')
    BY DEF Matches
  <2>7. ObjectsInv(s)'
    BY <2>1, <2>2, <2>3, <2>4, <2>5, <2>6 DEF ObjectsInv
  <2>8. RowsInv(s)'
    <3>1. (High(version))' = High(version')
      BY DEF High
    <3> QED  BY <2>1, <2>2, <2>4, <2>5, <3>1 DEF RowsInv
  <2> QED  BY <2>4, <2>7, <2>8
<1>12. \A s, t \in Runs : s # t => /\ locked'[s] \cap locked'[t] = {}
                                   /\ touched'[s] \cap touched'[t] = {}
                                   /\ ~(Moved(s)' /\ Moved(t)')
  BY <1>1, <1>11, CommandEnds DEF MigrationInv, Idle
<1>13. (Matches(schema, Latest(version)))' <=> Matches(schema', Latest(version'))
  BY DEF Matches
<1>14. ObjectsInv(r)' /\ RowsInv(r)'
  BY <1>1, CommandEnds
<1> QED
  BY <1>5, <1>9, <1>10, <1>11, <1>12, <1>13, <1>14 DEF MigrationInv

\* A command begins.
LEMMA BeginInv ==
  ASSUME MigrationInv, NEW r \in Runs, NEW v \in Versions, Begin(r, v)
  PROVE  MigrationInv'
<1>1. MigrationTypeOK /\ Idle(r) /\ version \subseteq {1, Latest(version)}
  BY DEF MigrationInv, ObjectsInv, Begin
<1>2. /\ r \in active' /\ active' = active \cup {r}
      /\ goal' = [goal EXCEPT ![r] = v] /\ heads' = [heads EXCEPT ![r] = version]
      /\ UNCHANGED <<schema, version, ran, made, dropped, locked, touched>>
  BY DEF Begin
<1>3. MigrationTypeOK'
  BY <1>1, <1>2 DEF MigrationTypeOK
<1>4. heads'[r] = version /\ At(r)' = Latest(version)
  BY <1>1, <1>2 DEF At, MigrationTypeOK
<1>5. ~Moved(r) /\ ~Moved(r)'
  BY <1>1, <1>2 DEF Idle, Moved, High
<1>6. ObjectsInv(r)' /\ RowsInv(r)'
  BY <1>1, <1>2, <1>4, <1>5 DEF ObjectsInv, RowsInv, Idle, Making, Dropping
<1>7. \A s \in Runs \ {r} : ObjectsInv(s)' /\ RowsInv(s)' /\ (Moved(s)' <=> Moved(s))
  BY <1>1, <1>2, OthersKeep DEF MigrationTypeOK
<1> QED  BY <1>2, <1>3, <1>5, <1>6, <1>7 DEF MigrationInv, Matches

\* A command is rolled back.
LEMMA AbortInv ==
  ASSUME MigrationInv, NEW r \in Runs, Abort(r)
  PROVE  MigrationInv'
<1>1. EndCommand(r) /\ UNCHANGED <<schema, version, goal>>
  BY DEF Abort
<1>2. MigrationTypeOK'
  BY <1>1, CommandEnds DEF MigrationInv, MigrationTypeOK
<1>3. \A s \in Runs \ {r} : ObjectsInv(s)' /\ RowsInv(s)' /\ (Moved(s)' <=> Moved(s))
  BY <1>1, CommandEnds, OthersKeep
<1>4. Idle(r)' /\ ~Moved(r)' /\ ObjectsInv(r)' /\ RowsInv(r)'
  BY <1>1, CommandEnds
<1>5. \A s, t \in Runs : s # t => /\ locked'[s] \cap locked'[t] = {}
                                  /\ touched'[s] \cap touched'[t] = {}
                                  /\ ~(Moved(s)' /\ Moved(t)')
  BY <1>1, <1>3, <1>4, CommandEnds DEF MigrationInv, Idle
<1> QED  BY <1>1, <1>2, <1>3, <1>4, <1>5 DEF MigrationInv, Matches

\* Every step of a command.
LEMMA MigrationStep ==
  ASSUME MigrationInv, [MigrationNext]_migrationVars
  PROVE  MigrationInv'
<1>1. ASSUME NEW r \in Runs, ByHand(r) PROVE MigrationInv'
  BY <1>1, BeginInv, UpgradeInv, DowngradeInv, RecordUpgradeInv, RecordDowngradeInv,
     CommitInv, AbortInv DEF ByHand, Command, Record
<1>2. CASE UNCHANGED migrationVars
  BY <1>2
     DEF migrationVars, commandVars, MigrationInv, MigrationTypeOK, Matches, Moved, Seen,
         ObjectsInv, RowsInv, Idle, Making, Dropping, Reached, At, High
<1> QED  BY <1>1, <1>2 DEF MigrationNext

\* The invariant of the migrations holds whichever commands run at once.
THEOREM MigrationInvariance == MigrationSpec => []MigrationInv
<1>1. MigrationInit(0) => MigrationInv
  BY MigrationStarts, ChainLength
<1> QED  BY <1>1, MigrationStep, PTL DEF MigrationSpec

\* No number of alembic commands, in whatever order their statements run and
\* wherever they fail, leaves tables that the last revision recorded does not
\* describe; commands that began at base, and the row they may add, included.
THEOREM SchemaMatchesVersionHolds == MigrationSpec => []SchemaMatchesVersion
<1>1. MigrationInv => SchemaMatchesVersion
  BY DEF MigrationInv, Matches, SchemaMatchesVersion, Extension
<1> QED  BY <1>1, MigrationInvariance, PTL

\* What the rows of a command that has recorded something are to the committed
\* ones: going up, it has one that is not there; going down, one is there above
\* the one it is at.
Forward(r) == At(r) \in touched[r] \ version
Back(r) == \E k \in touched[r] \cap version : At(r) < k

\* A command has changed something only when it has a record to show for it, or
\* is about to have one; the first row, if it is not the one it has come to, it
\* has not touched.
RecordInv(r) ==
  /\ 1 \in heads[r] /\ At(r) # 1 => 1 \notin touched[r]
  /\ touched[r] = {} /\ ~ran[r] => made[r] = {} /\ dropped[r] = {}
  /\ At(r) < goal[r] => \A k \in touched[r] : k <= At(r)
  /\ touched[r] # {} => IF At(r) < goal[r] THEN Forward(r)
                        ELSE IF goal[r] < At(r) THEN Back(r)
                        ELSE Forward(r) \/ Back(r)

RecordsInv == \A r \in Runs : RecordInv(r)

\* The commit of another command leaves alone the rows that a command has
\* touched.
LEMMA TouchedRowsStay ==
  ASSUME MigrationInv, NEW r \in Runs, NEW s \in Runs, s # r,
         version' = version \/ version' = Rows(r)
  PROVE  touched[s] \cap version' = touched[s] \cap version
<1>1. touched[r] \cap touched[s] = {}
  BY DEF MigrationInv
<1> QED  BY <1>1 DEF Rows

\* A step that is a command's own, or its commit, leaves the others theirs.
LEMMA OthersKeepRecords ==
  ASSUME MigrationInv, NEW r \in Runs, NEW s \in Runs, s # r, RecordInv(s),
         version' = version \/ version' = Rows(r),
         UNCHANGED <<goal[s], heads[s], ran[s], made[s], dropped[s], touched[s]>>
  PROVE  RecordInv(s)'
<1>1. touched[s] \cap version' = touched[s] \cap version
  BY TouchedRowsStay
<1>2. At(s)' = At(s)
  BY DEF At
<1>3. (Forward(s)' <=> Forward(s)) /\ (Back(s)' <=> Back(s))
  BY <1>1, <1>2 DEF Forward, Back
<1> QED  BY <1>2, <1>3 DEF RecordInv

\* A command that holds nothing has nothing to show.
LEMMA IdleRecords ==
  ASSUME NEW r \in Runs, touched[r] = {}, made[r] = {}, dropped[r] = {}
  PROVE  RecordInv(r)
BY DEF RecordInv

\* Each step keeps what a command has and what it has recorded together.
LEMMA RecordStep ==
  ASSUME MigrationInv, RecordsInv, [MigrationNext]_migrationVars
  PROVE  RecordsInv'
<1>1. ASSUME NEW r \in Runs, NEW v \in Versions, Begin(r, v)
      PROVE  RecordsInv'
  <2>1. Idle(r) /\ MigrationTypeOK
    BY <1>1 DEF Begin, MigrationInv, ObjectsInv
  <2>2. RecordInv(r)'
    BY <1>1, <2>1 DEF Begin, Idle, RecordInv
  <2>3. \A s \in Runs \ {r} : RecordInv(s)'
    BY <1>1, <2>1, OthersKeepRecords DEF Begin, MigrationTypeOK, RecordsInv
  <2> QED  BY <2>2, <2>3 DEF RecordsInv
<1>2. ASSUME NEW r \in Runs, Upgrade(r) \/ Downgrade(r)
      PROVE  RecordsInv'
  <2>1. /\ MigrationTypeOK
        /\ UNCHANGED <<version, goal, heads, touched>>
        /\ ran'[r] /\ At(r)' = At(r)
        /\ \A s \in Runs \ {r} : UNCHANGED <<ran[s], made[s], dropped[s]>>
    BY <1>2 DEF Upgrade, Downgrade, MigrationInv, MigrationTypeOK, At
  <2>2. (Forward(r)' <=> Forward(r)) /\ (Back(r)' <=> Back(r))
    BY <2>1 DEF Forward, Back
  <2>3. RecordInv(r)'
    BY <2>1, <2>2 DEF RecordInv, RecordsInv
  <2>4. \A s \in Runs \ {r} : RecordInv(s)'
    BY <2>1, OthersKeepRecords DEF RecordsInv
  <2> QED  BY <2>3, <2>4 DEF RecordsInv
<1>3. ASSUME NEW r \in Runs, RecordUpgrade(r)
      PROVE  RecordsInv'
  <2> DEFINE k == At(r) + 1
  <2> DEFINE old == {At(r)} \ {0}
  <2>1. /\ MigrationTypeOK /\ RecordInv(r)
        /\ At(r) < goal[r] /\ k \notin Rows(r)
        /\ heads' = [heads EXCEPT ![r] = (@ \ old) \cup {k}]
        /\ touched' = [touched EXCEPT ![r] = @ \cup old \cup {k}]
        /\ ran' = [ran EXCEPT ![r] = FALSE]
        /\ UNCHANGED <<schema, version, active, goal, made, dropped, locked>>
    BY <1>3 DEF RecordUpgrade, Move, MigrationInv, RecordsInv
  <2>2. /\ k \in 1..7 /\ At(r) = k - 1 /\ goal[r] \in 0..7 /\ touched[r] \subseteq 1..7
        /\ heads[r] \subseteq 1..7 /\ \A w \in heads[r] : w <= k - 1
    BY <2>1, CommandTypes
  <2>3. old \subseteq {k - 1} /\ (1 = k - 1 => 1 \in old)
    BY <2>2
  <2> HIDE DEF k, old
  <2>4. /\ heads'[r] = (heads[r] \ old) \cup {k}
        /\ touched'[r] = touched[r] \cup old \cup {k}
    BY <2>1 DEF MigrationTypeOK
  <2>5. At(r)' = k
    <3>1. /\ heads'[r] \in SUBSET (1..7) /\ k \in 0..7 /\ k \in heads'[r] \cup {0}
          /\ \A w \in heads'[r] : w <= k
      BY <2>2, <2>4
    <3> QED  BY <3>1, LatestIs DEF At
  <2>6. k \notin touched[r]
    BY <2>1, <2>2 DEF RecordInv
  <2>7. Forward(r)'
    BY <2>1, <2>4, <2>5, <2>6 DEF Forward, Rows
  <2>8. ASSUME 1 \in heads'[r], k # 1 PROVE 1 \notin touched'[r]
    <3>1. 1 \in heads[r] /\ At(r) # 1
      BY <2>2, <2>3, <2>4, <2>8
    <3>2. 1 \notin touched[r]
      BY <2>1, <3>1 DEF RecordInv
    <3> QED  BY <2>2, <2>3, <2>4, <2>8, <3>1, <3>2
  <2>9. \A j \in touched'[r] : j <= k
    <3>1. \A j \in touched[r] : j <= k - 1
      BY <2>1, <2>2 DEF RecordInv
    <3>2. \A j \in touched'[r] : j \in touched[r] \/ j = k - 1 \/ j = k
      BY <2>3, <2>4
    <3> QED  BY <2>2, <3>1, <3>2
  <2>10. ~(goal'[r] < k)
    BY <2>1, <2>2
  <2>11. RecordInv(r)'
    BY <2>4, <2>5, <2>7, <2>8, <2>9, <2>10 DEF RecordInv
  <2>12. \A s \in Runs \ {r} : RecordInv(s)'
    BY <2>1, OthersKeepRecords DEF MigrationTypeOK, RecordsInv
  <2> QED  BY <2>11, <2>12 DEF RecordsInv
<1>4. ASSUME NEW r \in Runs, RecordDowngrade(r)
      PROVE  RecordsInv'
  <2> DEFINE k == At(r)
  <2> DEFINE new == {k - 1} \ ({0} \cup heads[r])
  <2>1. /\ MigrationTypeOK /\ RecordInv(r) /\ RowsInv(r)
        /\ goal[r] < At(r) /\ k \in Rows(r)
        /\ heads' = [heads EXCEPT ![r] = (@ \ {k}) \cup new]
        /\ touched' = [touched EXCEPT ![r] = @ \cup {k} \cup new]
        /\ ran' = [ran EXCEPT ![r] = FALSE]
        /\ UNCHANGED <<schema, version, active, goal, made, dropped, locked>>
    BY <1>4 DEF RecordDowngrade, Move, MigrationInv, RecordsInv
  <2>2. /\ k \in 1..7 /\ At(r) = k /\ goal[r] \in 0..7 /\ goal[r] <= k - 1
        /\ heads[r] \subseteq 1..7 /\ \A w \in heads[r] : w <= k
    BY <2>1, CommandTypes
  <2>3. new \subseteq {k - 1} /\ new \cap heads[r] = {} /\ 0 \notin new
        /\ (k - 1 \in heads[r] \cup new \/ k = 1)
    BY <2>2
  <2> HIDE DEF k, new
  <2>4. /\ heads'[r] = (heads[r] \ {k}) \cup new
        /\ touched'[r] = touched[r] \cup {k} \cup new
    BY <2>1 DEF MigrationTypeOK
  <2>5. At(r)' = k - 1
    <3>1. heads'[r] \in SUBSET (1..7) /\ \A w \in heads'[r] : w <= k - 1
      <4>1. \A w \in heads'[r] : (w \in heads[r] /\ w # k) \/ (w = k - 1 /\ w # 0)
        BY <2>3, <2>4
      <4>2. \A w \in heads'[r] : w \in 1..7 /\ w <= k - 1
        BY <2>2, <4>1
      <4> QED  BY <4>2
    <3>2. k - 1 \in 0..7 /\ k - 1 \in heads'[r] \cup {0}
      BY <2>2, <2>3, <2>4
    <3> QED  BY <3>1, <3>2, LatestIs DEF At
  <2>6. Back(r)'
    <3>1. CASE touched[r] = {}
      <4>1. k \in version
        BY <2>1, <3>1 DEF Rows
      <4> QED  BY <2>1, <2>2, <2>4, <2>5, <4>1 DEF Back
    <3>2. CASE touched[r] # {}
      <4>1. PICK j \in touched[r] \cap version : k < j
        BY <2>1, <2>2, <3>2 DEF RecordInv, Back
      <4>2. k - 1 < j
        BY <2>1, <2>2, <4>1, ChainLength DEF MigrationTypeOK
      <4> QED  BY <2>1, <2>4, <2>5, <4>1, <4>2 DEF Back
    <3> QED  BY <3>1, <3>2
  <2>7. ASSUME 1 \in heads'[r], k - 1 # 1 PROVE 1 \notin touched'[r]
    <3>1. 1 \in heads[r] /\ k # 1
      BY <2>2, <2>3, <2>4, <2>7
    <3>2. 1 \notin touched[r]
      BY <2>1, <2>2, <3>1 DEF RecordInv
    <3> QED  BY <2>2, <2>3, <2>4, <2>7, <3>1, <3>2
  <2>8. ~(At(r)' < goal'[r])
    BY <2>1, <2>2, <2>5
  <2>9. RecordInv(r)'
    BY <2>4, <2>5, <2>6, <2>7, <2>8 DEF RecordInv
  <2>10. \A s \in Runs \ {r} : RecordInv(s)'
    BY <2>1, OthersKeepRecords DEF MigrationTypeOK, RecordsInv
  <2> QED  BY <2>9, <2>10 DEF RecordsInv
<1>5. ASSUME NEW r \in Runs, Commit(r) \/ Abort(r)
      PROVE  RecordsInv'
  <2>1. EndCommand(r) /\ goal' = goal /\ (version' = version \/ version' = Rows(r))
    BY <1>5 DEF Commit, Abort
  <2>2. RecordInv(r)'
    BY <2>1, CommandEnds DEF Idle, RecordInv
  <2>3. \A s \in Runs \ {r} : RecordInv(s)'
    BY <2>1, CommandEnds, OthersKeepRecords DEF RecordsInv
  <2> QED  BY <2>2, <2>3 DEF RecordsInv
<1>6. CASE UNCHANGED migrationVars
  BY <1>6 DEF migrationVars, commandVars, RecordsInv, RecordInv, Forward, Back, At
<1> QED
  BY <1>1, <1>2, <1>3, <1>4, <1>5, <1>6 DEF MigrationNext, ByHand, Command, Record

\* The database changes by the commit of a command that has come all the way.
LEMMA ChangesByCommit ==
  ASSUME MigrationInv, RecordsInv, [MigrationNext]_migrationVars,
         <<schema, version>>' # <<schema, version>>
  PROVE  /\ version' # version
         /\ \E r \in Runs : /\ r \in active /\ r \notin active'
                            /\ version' \ version \subseteq {goal[r]}
<1>1. PICK r \in Runs : ByHand(r)
  BY DEF MigrationNext, migrationVars
<1>2. Commit(r)
  BY <1>1 DEF ByHand, Command, Record, RecordUpgrade, RecordDowngrade, Move, Begin, Upgrade,
              Downgrade, Abort
<1>3. /\ r \in active /\ r \notin active' /\ ~ran[r] /\ At(r) = goal[r]
      /\ schema' = Seen(r) /\ version' = Rows(r)
  BY <1>2 DEF Commit, EndCommand
<1>4. RecordInv(r) /\ RowsInv(r) /\ MigrationTypeOK
  BY DEF RecordsInv, MigrationInv
<1>5. /\ goal[r] \in 0..7 /\ At(r) \in heads[r] \cup {0} /\ \A w \in heads[r] : w <= At(r)
      /\ touched[r] \subseteq 1..7 /\ heads[r] \subseteq 1..7
  BY <1>4, CommandTypes
<1>6. touched[r] # {}
  BY <1>3, <1>4 DEF RecordInv, Seen, Rows
<1>7. Forward(r) \/ Back(r)
  BY <1>3, <1>4, <1>6 DEF RecordInv
<1>8. version' # version
  <2>1. CASE Forward(r)
    <3>1. At(r) \in heads[r] /\ At(r) \in touched[r] /\ At(r) \notin version
      BY <1>5, <2>1 DEF Forward
    <3> QED  BY <1>3, <3>1 DEF Rows
  <2>2. CASE Back(r)
    <3>1. PICK k \in touched[r] \cap version : At(r) < k
      BY <2>2 DEF Back
    <3>2. k \notin heads[r]
      BY <1>3, <1>5, <3>1
    <3> QED  BY <1>3, <3>1, <3>2 DEF Rows
  <2> QED  BY <1>7, <2>1, <2>2
<1>9. version' \ version \subseteq {goal[r]}
  <2>1. heads[r] \cap touched[r] \subseteq {At(r)}
    BY <1>4 DEF RowsInv, RecordInv
  <2> QED  BY <1>3, <2>1 DEF Rows
<1> QED  BY <1>3, <1>8, <1>9

\* A command changes the database once, when it has run all its revisions.
THEOREM AllOrNothingHolds == MigrationSpec => AllOrNothing
<1>1. MigrationInit(0) => RecordsInv
  BY IdleRecords DEF MigrationInit, RecordsInv
<1>2. MigrationSpec => []RecordsInv
  BY <1>1, RecordStep, MigrationInvariance, PTL DEF MigrationSpec
<1>3. ASSUME MigrationInv, RecordsInv, [MigrationNext]_migrationVars
      PROVE  [<<schema, version>>' # <<schema, version>> =>
                /\ version' # version
                /\ \E r \in Runs : /\ r \in active /\ r \notin active'
                                 /\ version' \ version \subseteq {goal[r]}]_migrationVars
  BY <1>3, ChangesByCommit
<1> QED  BY <1>2, <1>3, MigrationInvariance, PTL DEF MigrationSpec, AllOrNothing

-----------------------------------------------------------------------------
(***************************************************************************)
(* Deployment.  A workflow only gives the database commands that           *)
(* Migrations has, so what is true of those is true here.  What it brings  *)
(* up has its revisions as long as no other workflow builds its images in  *)
(* between; nothing in deploy.yml sees to that, so it is a hypothesis.     *)
(***************************************************************************)
Underway(e) == step[e] \notin Ends

NoOverlap == \A d, e \in Deploys : Underway(d) /\ Underway(e) => d = e

\* The revisions of a release are some of the chain.
LEMMA HeadType ==
  ASSUME NEW m \in Releases
  PROVE  HeadOf[m] \in 1..7
BY HeadAssumption, ChainLength

\* The types of what the workflow has of its own, and where it is while the
\* command it has begun runs.
ReleaseTypeOK ==
  /\ active \subseteq Deploys
  /\ \A e \in active : step[e] \in MigrateSteps
  /\ main \in Releases /\ checkout \in Releases /\ image \in Releases
  /\ running \in [Services -> Releases \cup {None}]
  /\ step \in [Deploys -> Ends \cup {"record"} \cup DeploySteps \cup RollbackSteps]
  /\ previous \in [Deploys -> Releases]

\* A step of a workflow is a step of an alembic command, or none for the
\* database, and keeps the workflow's own types.
LEMMA DeploymentMigrates ==
  ASSUME ReleaseTypeOK, [DeploymentNext]_deploymentVars
  PROVE  [MigrationNext]_migrationVars /\ ReleaseTypeOK'
<1> USE DEF Goto, Ends, DeploySteps, RollbackSteps, MigrateSteps, Services
<1>1. ASSUME NEW e \in Deploys,
             \/ Trigger(e) \/ RecordPrevious(e) \/ Pull(e) \/ Build(e)
             \/ VersionUnknown(e) \/ HealthCheck(e) \/ HealthTimeout(e) \/ Reset(e)
      PROVE  UNCHANGED migrationVars /\ ReleaseTypeOK'
  BY <1>1
     DEF ReleaseTypeOK, Trigger, RecordPrevious, Pull, Build, VersionUnknown, HealthCheck,
         HealthTimeout, Reset, migrationVars, commandVars
<1>2. ASSUME NEW e \in Deploys, Up(e) \/ Start(e) \/ RollbackUp(e) \/ RollbackStart(e)
      PROVE  UNCHANGED migrationVars /\ ReleaseTypeOK'
  BY <1>2
     DEF ReleaseTypeOK, Up, Start, RollbackUp, RollbackStart, migrationVars, commandVars
<1>3. ASSUME NEW e \in Deploys, StartMigrate(e)
      PROVE  MigrationNext /\ ReleaseTypeOK'
  <2>1. HeadOf[image] \in Versions /\ e \in Runs
    BY HeadType, HeadAssumption, ChainLength DEF ReleaseTypeOK
  <2> QED
    BY <1>3, <2>1 DEF StartMigrate, MigrationNext, ByHand, Begin, ReleaseTypeOK, deployVars
<1>4. ASSUME NEW e \in Deploys, Migrating(e) \/ Migrated(e)
      PROVE  MigrationNext /\ ReleaseTypeOK'
  <2>1. e \in Runs
    BY HeadAssumption
  <2>2. CASE Migrating(e)
    BY <2>1, <2>2
       DEF Migrating, MigrationNext, ByHand, Command, Upgrade, Record, RecordUpgrade,
           RecordDowngrade, Move, ReleaseTypeOK, deployVars
  <2>3. CASE Migrated(e)
    <3>1. ReleaseTypeOK'
      BY <2>3 DEF Migrated, Commit, EndCommand, ReleaseTypeOK
    <3> QED  BY <2>1, <2>3, <3>1 DEF Migrated, MigrationNext, ByHand, Command
  <2> QED  BY <1>4, <2>2, <2>3
<1>5. ASSUME NEW e \in Deploys, StepFails(e)
      PROVE  (MigrationNext \/ UNCHANGED migrationVars) /\ ReleaseTypeOK'
  <2>1. e \in Runs
    BY HeadAssumption
  <2>2. ReleaseTypeOK'
    BY <1>5 DEF StepFails, Abort, EndCommand, ReleaseTypeOK, migrationVars, commandVars
  <2> QED
    BY <1>5, <2>1, <2>2 DEF StepFails, MigrationNext, ByHand, Command
<1>6. CASE UNCHANGED deploymentVars
  BY <1>6 DEF deploymentVars, deployVars, migrationVars, commandVars, ReleaseTypeOK
<1> QED  BY <1>1, <1>2, <1>3, <1>4, <1>5, <1>6 DEF DeploymentNext

\* Workflows never downgrade, so that of a database they are given nothing is
\* dropped, the extension included.
OnlyUpgrades ==
  /\ "postgis" \in schema
  /\ \A r \in Runs : dropped[r] = {}
  /\ \A r \in active : At(r) <= goal[r]

\* What holds of workflows however they overlap.
WorkflowInv == ReleaseTypeOK /\ MigrationInv /\ OnlyUpgrades

\* Each step of a workflow takes a database further or leaves it where it is.
LEMMA UpgradesStep ==
  ASSUME WorkflowInv, [DeploymentNext]_deploymentVars
  PROVE  OnlyUpgrades'
<1>1. MigrationTypeOK /\ MigrationInv /\ OnlyUpgrades /\ Deploys \subseteq Runs
  BY HeadAssumption DEF WorkflowInv, MigrationInv
<1>2. \A r \in Runs : At(r) \in 0..7 /\ goal[r] \in 0..7
  BY <1>1, CommandTypes
<1>3. ASSUME UNCHANGED migrationVars
      PROVE  OnlyUpgrades'
  BY <1>1, <1>3 DEF migrationVars, commandVars, OnlyUpgrades, At
<1>4. ASSUME NEW e \in Deploys, StartMigrate(e)
      PROVE  OnlyUpgrades'
  BY <1>1, <1>4 DEF StartMigrate, Begin, OnlyUpgrades, At, MigrationTypeOK
<1>5. ASSUME NEW e \in Deploys, Upgrade(e)
      PROVE  OnlyUpgrades'
  BY <1>1, <1>5 DEF Upgrade, OnlyUpgrades, At
<1>6. ASSUME NEW e \in Deploys, Record(e)
      PROVE  OnlyUpgrades'
  <2>1. e \in active /\ e \in Runs /\ At(e) <= goal[e]
    BY <1>1, <1>6 DEF Record, RecordUpgrade, RecordDowngrade, OnlyUpgrades
  <2>2. RecordUpgrade(e)
    BY <1>2, <1>6, <2>1 DEF Record, RecordDowngrade
  <2>3. At(e)' = At(e) + 1
    <3>1. heads'[e] = (heads[e] \ ({At(e)} \ {0})) \cup {At(e) + 1}
      BY <1>1, <2>1, <2>2 DEF RecordUpgrade, Move, MigrationTypeOK
    <3>2. heads[e] \subseteq 1..7 /\ \A w \in heads[e] : w <= At(e)
      BY <1>1, <2>1, CommandTypes
    <3>3. At(e) + 1 \in 1..7
      BY <1>2, <2>1, <2>2 DEF RecordUpgrade
    <3>4. /\ heads'[e] \in SUBSET (1..7) /\ At(e) + 1 \in heads'[e]
          /\ \A w \in heads'[e] : w <= At(e) + 1
      BY <1>2, <2>1, <3>1, <3>2, <3>3
    <3> QED  BY <3>3, <3>4, LatestIs DEF At
  <2>4. /\ At(e)' <= goal[e] /\ UNCHANGED <<schema, dropped, goal, active>>
        /\ \A r \in Runs \ {e} : At(r)' = At(r)
    BY <1>1, <1>2, <2>1, <2>2, <2>3 DEF RecordUpgrade, Move, At, MigrationTypeOK
  <2> QED  BY <1>1, <2>4 DEF OnlyUpgrades, MigrationTypeOK
<1>7. ASSUME NEW e \in Deploys, Commit(e) \/ Abort(e)
      PROVE  OnlyUpgrades'
  <2>1. e \in Runs /\ EndCommand(e) /\ goal' = goal
    BY <1>1, <1>7 DEF Commit, Abort
  <2>2. "postgis" \in schema'
    BY <1>1, <1>7, <2>1 DEF Commit, Abort, Seen, OnlyUpgrades
  <2>3. dropped'[e] = {} /\ e \notin active' /\ active' \subseteq active
    BY <1>1, <2>1 DEF EndCommand, MigrationTypeOK
  <2>4. \A r \in Runs \ {e} : dropped'[r] = dropped[r] /\ At(r)' = At(r)
    BY <1>1, <2>1, CommandEnds DEF At
  <2> QED  BY <1>1, <2>1, <2>2, <2>3, <2>4 DEF OnlyUpgrades, MigrationTypeOK
<1>8. ASSUME NEW e \in Deploys,
             \/ Trigger(e) \/ RecordPrevious(e) \/ Pull(e) \/ Build(e) \/ VersionUnknown(e)
             \/ Up(e) \/ Start(e) \/ HealthCheck(e) \/ HealthTimeout(e) \/ Reset(e)
             \/ RollbackUp(e) \/ RollbackStart(e)
      PROVE  UNCHANGED migrationVars
  BY <1>8
     DEF Trigger, RecordPrevious, Pull, Build, VersionUnknown, Up, Start, HealthCheck,
         HealthTimeout, Reset, RollbackUp, RollbackStart
<1> QED
  BY <1>3, <1>4, <1>5, <1>6, <1>7, <1>8
     DEF DeploymentNext, Migrating, Migrated, StepFails, deploymentVars

\* Deployments keep the invariant of the migrations, whether or not they overlap.
THEOREM DeploymentInvariance == DeploymentSpec => []WorkflowInv
<1>1. ASSUME DeploymentInit PROVE WorkflowInv
  <2>1. 1 \in Releases /\ HeadOf[1] \in Versions /\ HeadOf[1] \in 1..7
    BY HeadAssumption, HeadType, ChainLength DEF Releases
  <2>2. MigrationInv
    BY <1>1, <2>1, MigrationStarts DEF DeploymentInit
  <2>3. ReleaseTypeOK
    BY <1>1, <2>1 DEF DeploymentInit, MigrationInit, ReleaseTypeOK, Ends
  <2>4. "postgis" \in Created(HeadOf[1])
    <3>1. 1 \in 1..HeadOf[1] /\ "postgis" \in Creates[1]
      BY <2>1 DEF Creates, AddExtensions
    <3> QED  BY <3>1 DEF Created
  <2>5. OnlyUpgrades
    BY <1>1, <2>4 DEF DeploymentInit, MigrationInit, OnlyUpgrades
  <2> QED  BY <2>2, <2>3, <2>5 DEF WorkflowInv
<1>2. ASSUME WorkflowInv, [DeploymentNext]_deploymentVars PROVE WorkflowInv'
  BY <1>2, DeploymentMigrates, MigrationStep, UpgradesStep DEF WorkflowInv
<1> QED  BY <1>1, <1>2, PTL DEF DeploymentSpec

\* A workflow never leaves a schema that belongs to no revision, even beside
\* another, and never one without the extension.
THEOREM DeploymentKeepsSchema ==
  DeploymentSpec => [](SchemaMatchesVersion /\ "postgis" \in schema)
<1>1. WorkflowInv => SchemaMatchesVersion /\ "postgis" \in schema
  BY DEF WorkflowInv, MigrationInv, Matches, SchemaMatchesVersion, Extension, OnlyUpgrades
<1> QED  BY <1>1, DeploymentInvariance, PTL

\* The part of the invariant that needs workflows not to overlap: a command
\* starts at the recorded version and goes to the last revision of the image,
\* and nothing newer than the database is brought up.
ImageInv ==
  /\ \A s \in Services : running[s] # None => HeadOf[running[s]] <= Latest(version)
  /\ \A e \in Deploys :
       step[e] \in {"start", "rollback_start"} => HeadOf[image] <= Latest(version)
  /\ \A e \in active : /\ goal[e] = HeadOf[image]
                       /\ Latest(version) <= At(e)
                       /\ IF touched[e] = {} THEN heads[e] = version ELSE At(e) \in touched[e]

\* Each step of the one workflow that is under way keeps it.
LEMMA ImageStep ==
  ASSUME WorkflowInv, ImageInv, NoOverlap, [DeploymentNext]_deploymentVars
  PROVE  ImageInv'
<1> USE DEF Goto, Ends, Services, MigrateSteps
<1>1. /\ image \in Releases /\ HeadOf[image] \in 1..7
      /\ active \subseteq Deploys /\ Deploys \subseteq Runs
      /\ \A e \in active : step[e] \in MigrateSteps
      /\ step \in [Deploys -> Ends \cup {"record"} \cup DeploySteps \cup RollbackSteps]
      /\ running \in [Services -> Releases \cup {None}]
      /\ MigrationInv /\ MigrationTypeOK /\ OnlyUpgrades
  BY HeadType, HeadAssumption DEF WorkflowInv, ReleaseTypeOK, MigrationInv
<1>2. ASSUME NEW d \in Deploys, NEW e \in Deploys, Underway(e), d # e
      PROVE  step[d] \in Ends /\ d \notin active
  BY <1>1, <1>2 DEF NoOverlap, Underway
<1>3. ASSUME NEW e \in Deploys,
             \/ Trigger(e) \/ RecordPrevious(e) \/ Pull(e)
             \/ VersionUnknown(e) \/ HealthCheck(e) \/ HealthTimeout(e)
      PROVE  ImageInv'
  BY <1>1, <1>3
     DEF Trigger, RecordPrevious, Pull, VersionUnknown, HealthCheck, HealthTimeout,
         migrationVars, commandVars, ImageInv, At
<1>4. ASSUME NEW e \in Deploys, Build(e) \/ Reset(e)
      PROVE  ImageInv'
  BY <1>1, <1>2, <1>4
     DEF Build, Reset, Underway, migrationVars, commandVars, ImageInv, At
<1>5. ASSUME NEW e \in Deploys, Up(e) \/ Start(e) \/ RollbackUp(e) \/ RollbackStart(e)
      PROVE  ImageInv'
  BY <1>1, <1>5
     DEF Up, Start, RollbackUp, RollbackStart, migrationVars, commandVars, ImageInv, At
<1>6. ASSUME NEW e \in Deploys, StartMigrate(e)
      PROVE  ImageInv'
  <2>1. Idle(e) /\ e \in Runs
    BY <1>1, <1>6 DEF StartMigrate, Begin, MigrationInv, ObjectsInv
  <2>2. Latest(version) \in 0..7
    BY <1>1, CommandTypes, LatestRow, ChainLength DEF MigrationTypeOK
  <2> QED
    BY <1>1, <1>6, <2>1, <2>2
       DEF StartMigrate, Begin, deployVars, ImageInv, At, Idle, MigrationTypeOK
<1>7. ASSUME NEW e \in Deploys, Migrating(e)
      PROVE  ImageInv'
  <2>1. CASE Upgrade(e)
    BY <1>1, <1>7, <2>1 DEF Migrating, Upgrade, deployVars, ImageInv, At
  <2>2. CASE Record(e)
    <3>1. e \in active /\ e \in Runs /\ active = {e}
      BY <1>1, <1>2, <2>2 DEF Record, RecordUpgrade, RecordDowngrade, Underway
    <3>2. RecordUpgrade(e) /\ At(e) \in 0..7 /\ Latest(version) <= At(e)
      BY <1>1, <2>2, <3>1, CommandTypes
         DEF Record, RecordDowngrade, OnlyUpgrades, ImageInv
    <3>3. At(e)' = At(e) + 1 /\ At(e) + 1 \in touched'[e]
      <4>1. /\ heads'[e] = (heads[e] \ ({At(e)} \ {0})) \cup {At(e) + 1}
            /\ touched'[e] = touched[e] \cup ({At(e)} \ {0}) \cup {At(e) + 1}
        BY <1>1, <3>1, <3>2 DEF RecordUpgrade, Move, MigrationTypeOK
      <4>2. /\ heads[e] \subseteq 1..7 /\ goal[e] \in 0..7
            /\ \A w \in heads[e] : w <= At(e)
        BY <1>1, <3>1, CommandTypes
      <4>3. At(e) + 1 \in 1..7
        BY <3>2, <4>2 DEF RecordUpgrade
      <4>4. /\ heads'[e] \in SUBSET (1..7) /\ At(e) + 1 \in heads'[e]
            /\ \A w \in heads'[e] : w <= At(e) + 1
        BY <3>2, <4>1, <4>2, <4>3
      <4> QED  BY <4>1, <4>3, <4>4, LatestIs DEF At
    <3>4. Latest(version) \in 0..7
      BY <1>1, LatestRow, ChainLength DEF MigrationTypeOK
    <3>5. UNCHANGED <<schema, version, active, goal, deployVars>>
      BY <1>7, <3>2 DEF Migrating, RecordUpgrade, Move
    <3> QED  BY <3>1, <3>2, <3>3, <3>4, <3>5 DEF ImageInv, deployVars
  <2> QED  BY <1>7, <2>1, <2>2 DEF Migrating
<1>8. ASSUME NEW e \in Deploys, Migrated(e)
      PROVE  ImageInv'
  <2>0. Commit(e)
    BY <1>8 DEF Migrated
  <2>1. /\ e \in active /\ At(e) = goal[e] /\ goal[e] = HeadOf[image]
        /\ Latest(version) <= At(e) /\ version' = Rows(e)
        /\ touched[e] = {} => heads[e] = version
        /\ touched[e] # {} => At(e) \in touched[e]
    BY <2>0 DEF Commit, ImageInv
  <2>2. At(e) \in version'
    <3>1. At(e) \in heads[e]
      BY <1>1, <2>1, CommandTypes
    <3> QED  BY <2>1, <3>1 DEF Rows
  <2>3. HeadOf[image] <= Latest(version') /\ Latest(version) <= Latest(version')
        /\ Latest(version) \in 0..7 /\ Latest(version') \in 0..7
    <3>1. version \in SUBSET (1..7) /\ version' \in SUBSET (1..7)
      BY <1>1, <2>1, ChainLength DEF Rows, MigrationTypeOK
    <3>2. /\ Latest(version) \in 0..7 /\ Latest(version') \in 0..7
          /\ \A w \in version' : w <= Latest(version')
      BY <3>1, LatestRow
    <3>3. At(e) <= Latest(version')
      BY <2>2, <3>2
    <3> QED  BY <1>1, <2>1, <3>2, <3>3
  <2>4. active' = {} /\ image' = image /\ running' = running
    BY <1>1, <1>2, <1>8, <2>1 DEF Migrated, Commit, EndCommand, Underway
  <2>5. \A s \in Services : running[s] # None => HeadOf[running[s]] \in 1..7
    BY <1>1, HeadType
  <2>6. \A s \in Services : running[s] # None => HeadOf[running[s]] <= Latest(version')
    BY <2>3, <2>5 DEF ImageInv
  <2> QED  BY <2>3, <2>4, <2>6 DEF ImageInv
<1>9. ASSUME NEW e \in Deploys, StepFails(e)
      PROVE  ImageInv'
  <2>1. CASE e \in active
    <3>1. Abort(e) /\ active = {e}
      BY <1>1, <1>2, <1>9, <2>1 DEF StepFails, Underway
    <3> QED  BY <1>1, <1>9, <3>1 DEF StepFails, Abort, EndCommand, ImageInv, DeploySteps
  <2>2. CASE e \notin active
    BY <1>1, <1>9, <2>2
       DEF StepFails, migrationVars, commandVars, ImageInv, At, DeploySteps
  <2> QED  BY <2>1, <2>2
<1>10. CASE UNCHANGED deploymentVars
  BY <1>10 DEF deploymentVars, deployVars, migrationVars, commandVars, ImageInv, At
<1> QED
  BY <1>3, <1>4, <1>5, <1>6, <1>7, <1>8, <1>9, <1>10 DEF DeploymentNext

\* As long as no two workflows overlap, no service ever runs code whose
\* revisions the database does not have, whichever step fails and however often
\* releases are pushed, deployed and rolled back.
THEOREM CodeHasItsSchemaHolds ==
  DeploymentSpec /\ []NoOverlap => []CodeHasItsSchema
<1>1. ASSUME DeploymentInit PROVE ImageInv
  <2>1. 1 \in Releases /\ HeadOf[1] \in 1..7
    BY HeadAssumption, HeadType DEF Releases
  <2>2. version = {HeadOf[1]}
    BY <1>1, <2>1 DEF DeploymentInit, MigrationInit
  <2>3. Latest(version) = HeadOf[1]
    BY <2>1, <2>2, LatestIs
  <2> QED
    BY <1>1, <2>1, <2>3 DEF DeploymentInit, MigrationInit, ImageInv, Ends
<1>2. ASSUME WorkflowInv, ImageInv, NoOverlap, [DeploymentNext]_deploymentVars
      PROVE  ImageInv'
  BY <1>2, ImageStep
<1>3. ASSUME WorkflowInv, ImageInv PROVE CodeHasItsSchema
  <2> SUFFICES ASSUME NEW s \in Services, running[s] # None
               PROVE  Created(HeadOf[running[s]]) \subseteq schema
    BY DEF CodeHasItsSchema
  <2>1. /\ HeadOf[running[s]] <= Latest(version) /\ HeadOf[running[s]] \in 1..7
        /\ Latest(version) \in 0..7
    BY <1>3, HeadType, LatestRow, ChainLength
       DEF ImageInv, WorkflowInv, ReleaseTypeOK, MigrationInv, MigrationTypeOK
  <2>2. Created(HeadOf[running[s]]) \subseteq Created(Latest(version))
    BY <2>1 DEF Created
  <2> QED
    BY <1>3, <2>2 DEF WorkflowInv, MigrationInv, Matches, OnlyUpgrades, Extension
<1> QED
  BY <1>1, <1>2, <1>3, DeploymentInvariance, PTL DEF DeploymentSpec
=============================================================================

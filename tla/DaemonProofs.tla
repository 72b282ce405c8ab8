---------------------------- MODULE DaemonProofs ----------------------------
(***************************************************************************)
(* Proofs about the daemon's process: the tiles of a paired phone and the  *)
(* PIN survive its restarts and crashes.  And, from "What is shown" on,    *)
(* about what the process makes of the unit's bytes (Readings): whoever    *)
(* looks sees one device, and the wire loses and changes nothing.          *)
(***************************************************************************)
EXTENDS Daemon, Readings, FiniteSetTheorems, SequenceTheorems,
        WellFoundedInduction, TLAPS

-----------------------------------------------------------------------------
(* The order of the accessories.                                           *)

\* The devices of a configuration, if there is one.
Known == IF config = None THEN {} ELSE DOMAIN config.ip

\* Two functions agree where the first is defined, which is no further than
\* the second.
Within(f, g) == /\ DOMAIN f \subseteq DOMAIN g
                /\ \A i \in DOMAIN f : f[i] = g[i]

\* Devices that come after all there are leave the places of those.
LEMMA SortedGrows ==
    ASSUME NEW old, NEW new, IsFiniteSet(new), new \subseteq Nat,
           old \subseteq new,
           \A d \in old, e \in new \ old : d < e
    PROVE  Within(Sorted(old), Sorted(new))
<1> DEFINE m == Cardinality(old)  n == Cardinality(new)
<1>1. IsFiniteSet(old) /\ m \in Nat /\ n \in Nat /\ m <= n
    <2>1. old \in SUBSET new
        OBVIOUS
    <2>2. IsFiniteSet(old) /\ m <= n
        BY <2>1, FS_Subset
    <2>3. m \in Nat
        BY <2>2, FS_CardinalityType
    <2>4. n \in Nat
        BY FS_CardinalityType
    <2> QED  BY <2>2, <2>3, <2>4
<1>2. ASSUME NEW d \in old
      PROVE  {e \in new : e < d} = {e \in old : e < d}
    <2>1. \A e \in new \ old : d < e /\ d \in Nat /\ e \in Nat
        OBVIOUS
    <2>2. \A e \in new \ old : ~(e < d)
        BY <2>1
    <2> QED  BY <2>2
<1>3. ASSUME NEW d \in new \ old
      PROVE  Cardinality({e \in new : e < d}) \in Nat /\ Cardinality({e \in new : e < d}) >= m
    <2> DEFINE B == {e \in new : e < d}
    <2>1. old \subseteq B /\ B \subseteq new
        OBVIOUS
    <2>2. IsFiniteSet(B) /\ Cardinality(B) \in Nat
        BY <2>1, FS_Subset, FS_CardinalityType
    <2> QED  BY <2>1, <2>2, FS_Subset
<1>4. ASSUME NEW i \in 1 .. m
      PROVE  Sorted(old)[i] = Sorted(new)[i]
    <2>1. i \in 1 .. n
        BY <1>1
    <2>2. \A d : (d \in old /\ Cardinality({e \in old : e < d}) = i - 1) <=>
                 (d \in new /\ Cardinality({e \in new : e < d}) = i - 1)
        <3> SUFFICES ASSUME NEW d
                     PROVE  (d \in old /\ Cardinality({e \in old : e < d}) = i - 1) <=>
                            (d \in new /\ Cardinality({e \in new : e < d}) = i - 1)
            OBVIOUS
        <3>1. CASE d \in old
            BY <1>2, <3>1
        <3>2. CASE d \in new \ old
            BY <1>1, <1>3, <3>2
        <3>3. CASE d \notin new
            BY <3>3
        <3> QED  BY <3>1, <3>2, <3>3
    <2> DEFINE P(d) == d \in old /\ Cardinality({e \in old : e < d}) = i - 1
               Q(d) == d \in new /\ Cardinality({e \in new : e < d}) = i - 1
    <2>3. (CHOOSE d : P(d)) = (CHOOSE d : Q(d))
        BY <2>2
    <2>4. Sorted(old)[i] = (CHOOSE d : P(d))
        BY DEF Sorted
    <2>5. Sorted(new)[i] = (CHOOSE d : Q(d))
        BY <2>1 DEF Sorted
    <2> QED  BY <2>3, <2>4, <2>5
<1>5. DOMAIN Sorted(old) = 1 .. m /\ DOMAIN Sorted(new) = 1 .. n
    BY DEF Sorted
<1> QED  BY <1>1, <1>4, <1>5 DEF Within

\* Sorted names are a sequence.
LEMMA SortedSeq ==
    ASSUME NEW ds, IsFiniteSet(ds)
    PROVE  /\ Cardinality(ds) \in Nat
           /\ DOMAIN Sorted(ds) = 1 .. Cardinality(ds)
           /\ Len(Sorted(ds)) = Cardinality(ds)
    BY FS_CardinalityType DEF Sorted

-----------------------------------------------------------------------------
(* The inductive invariant.                                                *)

\* The configuration file is one, or there is none.
FileOK == config \in ConfigFiles \cup {None}

\* The daemon runs with the devices of the file as it is.
RunsFile == main # "down" => DOMAIN registry = Known

\* No accessory before the PIN is known, and none without HomeKit.
NoTilesYet == main \in {"down", "probing", "wiring", "pin", "writing"} => tiles = None

\* While they are made, the accessories are the first of the sorted names.
TilesSorted == main = "tiles" =>
    /\ tiles \in Seq(Range(Sorted(Known)))
    /\ Within(tiles, Sorted(Known))

\* Once published, they are all of them.
TilesAll == Published => DOMAIN tiles = DOMAIN Sorted(Known) /\ Within(tiles, Sorted(Known))

\* What a phone has learned is still in the order of the names.
HomeSorted == Within(home, Sorted(Known))

\* The PIN of the log is the one of the file; none has been logged while one
\* is being written.
PinLogged == /\ logged \subseteq {pinFile}
             /\ logged # {} => pinFile \in Pins
             /\ main = "writing" => logged = {}

DInv == /\ FileOK
        /\ RunsFile
        /\ NoTilesYet
        /\ TilesSorted
        /\ TilesAll
        /\ HomeSorted
        /\ PinLogged

\* The devices of a file are finitely many numbers.
LEMMA FilesFinite ==
    ASSUME NEW c \in ConfigFiles
    PROVE  IsFiniteSet(DOMAIN c.ip) /\ DOMAIN c.ip \subseteq Devices
<1>1. c.ip \in UNION {[D -> Addresses \cup {None}] : D \in SUBSET Devices}
    BY DEF ConfigFiles
<1>2. DOMAIN c.ip \in SUBSET Devices
    BY <1>1
<1> QED  BY <1>2, FS_Subset, DaemonAssumption

LEMMA KnownFinite ==
    ASSUME FileOK
    PROVE  IsFiniteSet(Known) /\ Known \subseteq Devices
    BY FilesFinite, FS_EmptySet DEF FileOK, Known

LEMMA DInit == Init => DInv
<1> SUFFICES ASSUME Init PROVE DInv
    OBVIOUS
<1>1. FileOK
    BY DaemonAssumption DEF Init, FileOK
<1>2. HomeSorted
    BY DEF Init, HomeSorted, Within
<1> QED  BY <1>1, <1>2
         DEF Init, DInv, RunsFile, NoTilesYet, TilesSorted, TilesAll, Published, PinLogged

-----------------------------------------------------------------------------
(* The steps.                                                              *)

\* The process is gone: nothing it held matters, and the files are unchanged.
LEMMA GoneStep ==
    ASSUME DInv, Gone, UNCHANGED <<files, home, logged>>
    PROVE  DInv'
<1>1. UNCHANGED <<config, pinFile, home, logged>> /\ Known' = Known
    BY DEF files, Known
<1>2. main' = "down" /\ tiles' = None
    BY DEF Gone
<1>3. FileOK' /\ HomeSorted'
    BY <1>1 DEF DInv, FileOK, HomeSorted
<1>4. RunsFile' /\ NoTilesYet' /\ TilesSorted' /\ TilesAll'
    BY <1>2 DEF RunsFile, NoTilesYet, TilesSorted, TilesAll, Published
<1>5. PinLogged'
    BY <1>1, <1>2 DEF DInv, PinLogged
<1> QED  BY <1>3, <1>4, <1>5 DEF DInv

\* Devices are added after those there are, whose places stay.
LEMMA EditStep ==
    ASSUME DInv, Edit
    PROVE  DInv'
<1> PICK c \in Configs :
       /\ config # None =>
            /\ DOMAIN config.ip \subseteq DOMAIN c.ip
            /\ \A d \in DOMAIN config.ip, e \in DOMAIN c.ip \ DOMAIN config.ip : d < e
       /\ config' = c
    BY DEF Edit
<1>1. FileOK'
    BY DaemonAssumption DEF FileOK
<1>2. main = "down" /\ UNCHANGED <<pinFile, home, logged, main, tiles>>
    BY DEF Edit, process
<1>3. IsFiniteSet(Known') /\ Known' \subseteq Nat
    <2>1. CASE config' = None
        BY <2>1, FS_EmptySet DEF Known
    <2>2. CASE config' # None
        <3>1. config' \in ConfigFiles /\ Known' = DOMAIN config'.ip
            BY <1>1, <2>2 DEF FileOK, Known
        <3>2. IsFiniteSet(Known') /\ Known' \subseteq Devices
            BY <3>1, FilesFinite
        <3> QED  BY <3>2, DaemonAssumption
    <2> QED  BY <2>1, <2>2
<1>4. Known \subseteq Known' /\ \A d \in Known, e \in Known' \ Known : d < e
    <2>1. Known' = DOMAIN c.ip
        BY DaemonAssumption DEF Known
    <2> QED  BY <2>1 DEF Known
<1>5. Within(Sorted(Known), Sorted(Known'))
    BY <1>3, <1>4, SortedGrows
<1>6. HomeSorted'
    BY <1>2, <1>5 DEF DInv, HomeSorted, Within
<1>7. RunsFile' /\ NoTilesYet' /\ TilesSorted' /\ TilesAll' /\ PinLogged'
    BY <1>2 DEF DInv, RunsFile, NoTilesYet, TilesSorted, TilesAll, Published, PinLogged
<1> QED  BY <1>1, <1>6, <1>7 DEF DInv

\* Steps that leave the files, the tiles and the phone alone, and the devices
\* of the registry.
LEMMA PlainStep ==
    ASSUME DInv, files' = files, home' = home, logged' = logged, tiles' = tiles,
           main' # "down" => main # "down" /\ DOMAIN registry' = DOMAIN registry,
           main' \in {"down", "probing", "wiring", "pin"} =>
              main \in {"down", "probing", "wiring", "pin"},
           main' = "writing" => main = "writing", main' = "tiles" => main = "tiles",
           main' \in {"serving", "draining", "waiting"} /\ tiles # None =>
              main \in {"serving", "draining", "waiting"}
    PROVE  DInv'
<1>1. UNCHANGED <<config, pinFile, home, logged, tiles>> /\ Known' = Known
    BY DEF files, Known
<1>2. FileOK' /\ HomeSorted' /\ PinLogged'
    BY <1>1 DEF DInv, FileOK, HomeSorted, PinLogged
<1>3. RunsFile'
    BY <1>1 DEF DInv, RunsFile
<1>4. NoTilesYet'
    BY <1>1 DEF DInv, NoTilesYet
<1>5. TilesSorted' /\ TilesAll'
    BY <1>1 DEF DInv, TilesSorted, TilesAll, Published
<1> QED  BY <1>2, <1>3, <1>4, <1>5 DEF DInv

LEMMA StartStep ==
    ASSUME DInv, Start
    PROVE  DInv'
<1>1. /\ UNCHANGED <<config, pinFile, home, logged, tiles>>
      /\ main = "down" /\ config # None /\ registry' = config.ip
      /\ main' \in {"probing", "wiring"}
    BY DEF Start, files
<1>2. Known' = Known /\ DOMAIN registry' = Known
    BY <1>1 DEF Known
<1>3. FileOK' /\ HomeSorted' /\ PinLogged'
    BY <1>1, <1>2 DEF DInv, FileOK, HomeSorted, PinLogged
<1>4. RunsFile' /\ NoTilesYet' /\ TilesSorted' /\ TilesAll'
    BY <1>1, <1>2 DEF DInv, RunsFile, NoTilesYet, TilesSorted, TilesAll, Published
<1> QED  BY <1>3, <1>4 DEF DInv

\* There was no configuration: no phone has learned a tile.
LEMMA BootstrapStep ==
    ASSUME DInv, Bootstrap
    PROVE  DInv'
<1>1. /\ UNCHANGED <<pinFile, home, logged, main, tiles, registry>>
      /\ main = "down" /\ config = None /\ config' = Default
    BY DEF Bootstrap, process
<1>2. FileOK'
    BY <1>1, DaemonAssumption DEF FileOK
<1>3. Cardinality({}) = 0 /\ IsFiniteSet({})
    BY FS_EmptySet
<1>4. DOMAIN home = {}
    <2>1. DOMAIN Sorted({}) = {}
        BY <1>3 DEF Sorted
    <2> QED  BY <1>1, <2>1 DEF DInv, HomeSorted, Within, Known
<1>5. HomeSorted'
    BY <1>1, <1>4 DEF HomeSorted, Within
<1>6. RunsFile' /\ NoTilesYet' /\ TilesSorted' /\ TilesAll' /\ PinLogged'
    BY <1>1 DEF DInv, RunsFile, NoTilesYet, TilesSorted, TilesAll, Published, PinLogged
<1> QED  BY <1>2, <1>5, <1>6 DEF DInv

\* HomeKit starts when the PIN is known, and its log line with it.
LEMMA PinKnownStep ==
    ASSUME DInv, LoadPin \/ PinWritten
    PROVE  DInv'
<1>1. /\ UNCHANGED <<config, home, registry>>
      /\ main \in {"pin", "writing"} /\ main' = "tiles" /\ tiles' = << >>
      /\ pinFile' \in Pins /\ logged' \subseteq {pinFile'}
    <2>1. CASE LoadPin
        BY <2>1 DEF LoadPin, files, DInv, PinLogged
    <2>2. CASE PinWritten
        BY <2>2 DEF PinWritten, DInv, PinLogged
    <2> QED  BY <2>1, <2>2
<1>2. Known' = Known
    BY <1>1 DEF Known
<1>3. FileOK' /\ HomeSorted' /\ RunsFile'
    BY <1>1, <1>2 DEF DInv, FileOK, HomeSorted, RunsFile
<1>4. TilesSorted'
    BY <1>1 DEF TilesSorted, Within
<1>5. NoTilesYet' /\ TilesAll' /\ PinLogged'
    BY <1>1 DEF NoTilesYet, TilesAll, Published, PinLogged
<1> QED  BY <1>3, <1>4, <1>5 DEF DInv

LEMMA GeneratePinStep ==
    ASSUME DInv, GeneratePin
    PROVE  DInv'
<1>1. /\ UNCHANGED <<config, home, logged, tiles, registry>>
      /\ main = "pin" /\ main' = "writing" /\ pinFile \notin Pins
    BY DEF GeneratePin
<1>2. Known' = Known /\ logged = {}
    BY <1>1 DEF Known, DInv, PinLogged
<1>3. FileOK' /\ HomeSorted' /\ RunsFile' /\ NoTilesYet'
    BY <1>1, <1>2 DEF DInv, FileOK, HomeSorted, RunsFile, NoTilesYet
<1>4. TilesSorted' /\ TilesAll' /\ PinLogged'
    BY <1>1, <1>2 DEF TilesSorted, TilesAll, Published, PinLogged
<1> QED  BY <1>3, <1>4 DEF DInv

\* The next accessory is the next of the sorted names.
LEMMA AddTileStep ==
    ASSUME DInv, AddTile
    PROVE  DInv'
<1> DEFINE s == Sorted(Known)  n == Cardinality(Known)
<1>1. /\ UNCHANGED <<config, pinFile, home, logged, main, registry>>
      /\ main = "tiles" /\ Known' = Known
    BY DEF AddTile, files, Known
<1>2. DOMAIN registry = Known
    BY <1>1 DEF DInv, RunsFile
<1>3. n \in Nat /\ DOMAIN s = 1 .. n /\ Len(s) = n
    BY KnownFinite, SortedSeq DEF DInv
<1>4. Len(tiles) < Len(s) /\ tiles' = Append(tiles, s[Len(tiles) + 1])
    BY <1>2 DEF AddTile
<1>5. tiles \in Seq(Range(s)) /\ Within(tiles, s)
    BY <1>1 DEF DInv, TilesSorted
<1> HIDE DEF s, n
<1>6. tiles' \in Seq(Range(s)) /\ Within(tiles', s)
    <2>1. Len(tiles) \in Nat /\ DOMAIN tiles = 1 .. Len(tiles)
        BY <1>5
    <2>2. Len(tiles) + 1 \in 1 .. n
        BY <1>3, <1>4, <2>1
    <2>3. s[Len(tiles) + 1] \in Range(s)
        BY <1>3, <2>2 DEF Range
    <2>4. /\ tiles' \in Seq(Range(s)) /\ DOMAIN tiles' = 1 .. Len(tiles) + 1
          /\ \A i \in 1 .. Len(tiles) : tiles'[i] = tiles[i]
          /\ tiles'[Len(tiles) + 1] = s[Len(tiles) + 1]
        BY <1>4, <1>5, <2>1, <2>3
    <2>5. \A i \in 1 .. Len(tiles) + 1 : i \in 1 .. Len(tiles) \/ i = Len(tiles) + 1
        BY <2>1
    <2>6. 1 .. Len(tiles) + 1 \subseteq 1 .. n
        BY <1>3, <2>1, <2>2
    <2> QED  BY <1>3, <1>5, <2>1, <2>4, <2>5, <2>6 DEF Within
<1>7. FileOK' /\ HomeSorted' /\ RunsFile' /\ PinLogged'
    BY <1>1 DEF DInv, FileOK, HomeSorted, RunsFile, PinLogged
<1>8. TilesSorted'
    BY <1>1, <1>6 DEF TilesSorted, s
<1>9. NoTilesYet' /\ TilesAll'
    BY <1>1 DEF NoTilesYet, TilesAll, Published
<1> QED  BY <1>7, <1>8, <1>9 DEF DInv

\* All have been made.
LEMMA ServeStep ==
    ASSUME DInv, Serve
    PROVE  DInv'
<1> DEFINE s == Sorted(Known)
<1>1. /\ UNCHANGED <<config, pinFile, home, logged, tiles, registry>>
      /\ main = "tiles" /\ main' = "serving" /\ Known' = Known
    BY DEF Serve, files, Known
<1>2. DOMAIN registry = Known
    BY <1>1 DEF DInv, RunsFile
<1>3. DOMAIN s = 1 .. Len(s) /\ Len(tiles) = Len(s)
    BY <1>2, KnownFinite, SortedSeq DEF DInv, Serve
<1>4. tiles \in Seq(Range(s)) /\ Within(tiles, s)
    BY <1>1 DEF DInv, TilesSorted
<1> HIDE DEF s
<1>5. DOMAIN tiles = DOMAIN s
    BY <1>3, <1>4
<1>6. TilesAll'
    BY <1>1, <1>4, <1>5 DEF TilesAll, s
<1>7. FileOK' /\ HomeSorted' /\ RunsFile'
    BY <1>1 DEF DInv, FileOK, HomeSorted, RunsFile
<1>8. NoTilesYet' /\ TilesSorted' /\ PinLogged'
    BY <1>1 DEF DInv, NoTilesYet, TilesSorted, PinLogged
<1> QED  BY <1>6, <1>7, <1>8 DEF DInv

\* What a phone learns it learns in the order of the names.
LEMMA LearnStep ==
    ASSUME DInv, Learn
    PROVE  DInv'
<1>1. /\ UNCHANGED <<config, pinFile, logged, main, tiles, registry>>
      /\ Published /\ home' = Learned /\ Known' = Known
    BY DEF Learn, files, process, Known
<1>2. Within(home, Sorted(Known)) /\ Within(tiles, Sorted(Known))
    BY <1>1 DEF DInv, HomeSorted, TilesAll
<1>3. HomeSorted'
    <2>1. /\ DOMAIN home' = DOMAIN home \cup DOMAIN tiles
          /\ \A i \in DOMAIN home' : home'[i] = IF i \in DOMAIN home THEN home[i] ELSE tiles[i]
        BY <1>1 DEF Learned
    <2>2. Within(home', Sorted(Known))
        BY <1>2, <2>1 DEF Within
    <2> QED  BY <1>1, <2>2 DEF HomeSorted
<1>4. FileOK' /\ RunsFile' /\ NoTilesYet' /\ TilesSorted' /\ TilesAll' /\ PinLogged'
    BY <1>1 DEF DInv, FileOK, RunsFile, NoTilesYet, TilesSorted, TilesAll, Published, PinLogged
<1> QED  BY <1>3, <1>4 DEF DInv

LEMMA DNext == DInv /\ [Next]_vars => DInv'
<1> SUFFICES ASSUME DInv, [Next]_vars PROVE DInv'
    OBVIOUS
<1>1. CASE Move
    <2>1. /\ files' = files /\ home' = home /\ logged' = logged /\ tiles' = tiles
          /\ main' = main /\ registry' = registry
        BY <1>1 DEF Move, process
    <2> QED  BY <2>1, PlainStep
<1>2. CASE Edit
    BY <1>2, EditStep
<1>3. CASE Crash \/ HomekitFails \/ Exit
    BY <1>3, GoneStep DEF Crash, HomekitFails, Exit
<1>4. CASE Start
    BY <1>4, StartStep
<1>5. CASE Bootstrap
    BY <1>5, BootstrapStep
<1>6. CASE startPollers
    <2>1. /\ files' = files /\ home' = home /\ logged' = logged /\ tiles' = tiles /\ registry' = registry
          /\ main = "wiring" /\ main' \in {"pin", "serving"}
        BY <1>6 DEF startPollers
    <2>2. tiles = None
        BY <2>1 DEF DInv, NoTilesYet
    <2> QED  BY <2>1, <2>2, PlainStep
<1>7. CASE LoadPin \/ PinWritten
    BY <1>7, PinKnownStep
<1>8. CASE GeneratePin
    BY <1>8, GeneratePinStep
<1>9. CASE AddTile
    BY <1>9, AddTileStep
<1>10. CASE Serve
    BY <1>10, ServeStep
<1>11. CASE Learn
    BY <1>11, LearnStep
<1>12. CASE ProbeBegin
    <2>1. /\ files' = files /\ home' = home /\ logged' = logged /\ tiles' = tiles
          /\ main' = main /\ registry' = registry
        BY <1>12 DEF ProbeBegin
    <2> QED  BY <2>1, PlainStep
<1>13. ASSUME NEW d \in Devices, Answer(d) PROVE DInv'
    <2>1. /\ files' = files /\ home' = home /\ logged' = logged /\ tiles' = tiles
          /\ main' = main /\ registry' = registry
        BY <1>13 DEF Answer
    <2> QED  BY <2>1, PlainStep
<1>14. CASE ProbeEnds
    <2>1. /\ files' = files /\ home' = home /\ logged' = logged /\ tiles' = tiles
          /\ DOMAIN registry' = DOMAIN registry
          /\ main' = IF main = "probing" THEN "wiring" ELSE main
        BY <1>14 DEF ProbeEnds, Refreshed
    <2> QED  BY <2>1, PlainStep
<1>15. CASE Goroutines \/ Requests
    <2>1. /\ files' = files /\ home' = home /\ logged' = logged /\ tiles' = tiles
          /\ main' = main /\ registry' = registry
        BY <1>15 DEF Goroutines, Requests
    <2> QED  BY <2>1, PlainStep
<1>16. CASE Stop \/ Drain \/ Wait
    <2>1. /\ files' = files /\ home' = home /\ logged' = logged /\ tiles' = tiles
          /\ registry' = registry
          /\ \/ main = "serving" /\ main' = "draining"
             \/ main = "draining" /\ main' = "waiting"
             \/ main = "waiting" /\ main' = "unpublishing"
        BY <1>16 DEF Stop, Drain, Wait, Goes
    <2> QED  BY <2>1, PlainStep
<1>17. CASE UNCHANGED vars
    <2>1. files' = files /\ home' = home /\ logged' = logged /\ process' = process
        BY <1>17 DEF vars, files
    <2>2. tiles' = tiles /\ main' = main /\ registry' = registry
        BY <2>1 DEF process
    <2> QED  BY <2>1, <2>2, PlainStep
<1> QED  BY <1>1, <1>2, <1>3, <1>4, <1>5, <1>6, <1>7, <1>8, <1>9, <1>10, <1>11,
            <1>12, <1>13, <1>14, <1>15, <1>16, <1>17 DEF Next

-----------------------------------------------------------------------------
(* The theorem.                                                            *)

\* Across restarts, crashes at any step and devices added to the
\* configuration, every tile a phone has learned is where the daemon now
\* publishes that unit, and the log has shown one PIN only
\* (homekit.go:83-102, 166-189).
THEOREM TilesAndPinKept == Spec => []HomeKept
<1>1. DInv => HomeKept
    <2> SUFFICES ASSUME DInv PROVE HomeKept
        OBVIOUS
    <2>1. Published => \A aid \in DOMAIN home :
                          aid \in DOMAIN tiles /\ tiles[aid] = home[aid]
        BY DEF DInv, TilesAll, HomeSorted, Within
    <2>2. \A p, q \in logged : p = q
        BY DEF DInv, PinLogged
    <2> QED  BY <2>1, <2>2 DEF HomeKept
<1> QED  BY <1>1, DInit, DNext, PTL DEF Spec

-----------------------------------------------------------------------------
(* What is shown.                                                          *)

\* What a field of any screen is a reading of: how it is read, and of which
\* parameter (the table of handlers_device.go, ui_view.go and metrics.go put
\* together).
Meaning == [power |-> <<"isOne", 1>>, heater_enabled |-> <<"isOne", 104>>,
    humidity_sensor_enabled |-> <<"isOne", 15>>,
    co2_sensor_enabled |-> <<"isOne", 17>>,
    voc_sensor_enabled |-> <<"isOne", 789>>, speed_mode |-> <<"u8", 2>>,
    manual_pct |-> <<"u8", 68>>, airflow_mode |-> <<"u8", 183>>,
    humidity_threshold_pct |-> <<"u8", 25>>, preset1_supply |-> <<"u8", 58>>,
    preset1_extract |-> <<"u8", 59>>, preset2_supply |-> <<"u8", 60>>,
    preset2_extract |-> <<"u8", 61>>, preset3_supply |-> <<"u8", 62>>,
    preset3_extract |-> <<"u8", 63>>, co2_threshold_ppm |-> <<"u16", 26>>,
    voc_threshold_index |-> <<"u16", 799>>,
    heater_running |-> <<"isOne", 129>>, special_mode |-> <<"u8", 7>>,
    fan_supply_rpm |-> <<"u16", 74>>, fan_extract_rpm |-> <<"u16", 75>>,
    special_mode_remaining_seconds |-> <<"hms", 11>>,
    humidity_pct |-> <<"u8", 37>>, recovery_efficiency_pct |-> <<"u8", 297>>,
    eco2_ppm |-> <<"u16", 39>>, voc_index |-> <<"u16", 800>>,
    temp_outdoor_c |-> <<"temp", 31>>, temp_supply_c |-> <<"temp", 32>>,
    temp_exhaust_inlet_c |-> <<"temp", 33>>,
    temp_exhaust_outlet_c |-> <<"temp", 34>>,
    filter_status |-> <<"nonZero", 136>>,
    filter_remaining_seconds |-> <<"dhm", 100>>,
    motor_lifetime_seconds |-> <<"dhm", 126>>,
    filter_total_seconds |-> <<"days", 99>>,
    rtc_battery_volts |-> <<"u16", 36>>, fault_level |-> <<"u8", 131>>,
    frost_protection_active |-> <<"isOne", 779>>,
    firmware |-> <<"firmware", 134>>, alert_humidity |-> <<"rh", 132>>,
    alert_co2 |-> <<"co2", 132>>, alert_voc |-> <<"voc", 132>>,
    night_duration_seconds |-> <<"hm", 770>>,
    turbo_duration_seconds |-> <<"hm", 771>>]

\* The fields a table of Views names.
Fields(T) == UNION {DOMAIN T[h] : h \in DOMAIN T}

\* A table that reads fields as Meaning does.
Fits(T, M) == \A h \in DOMAIN T : \A f \in DOMAIN T[h] : M[f] = <<h, T[h][f]>>

\* What the values have for a field.
Meant(M, f, v) == IF M[f][2] \in DOMAIN v THEN Reads(M[f][1], v[M[f][2]]) ELSE <<>>
Val(f, v) == Meant(Meaning, f, v)

\* What the values show of some fields.
Showing(M, F, v) == [f \in {g \in F : Meant(M, g, v) # <<>>} |-> Meant(M, f, v)]
Vals(F, v) == Showing(Meaning, F, v)

\* A table that fits a meaning shows what the meaning gives its fields.
LEMMA ShowOfFitting ==
    ASSUME NEW T, NEW M, NEW v, Fits(T, M)
    PROVE  Show(T, v) = Showing(M, Fields(T), v)
<1> DEFINE how(f) == CHOOSE h \in DOMAIN T : f \in DOMAIN T[h]
<1> DEFINE val(f) == IF T[how(f)][f] \in DOMAIN v THEN Reads(how(f), v[T[how(f)][f]])
                     ELSE <<>>
<1>1. ASSUME NEW f \in Fields(T)
      PROVE  val(f) = Meant(M, f, v)
    <2>1. \E h \in DOMAIN T : f \in DOMAIN T[h]
        BY DEF Fields
    <2>2. how(f) \in DOMAIN T /\ f \in DOMAIN T[how(f)]
        BY <2>1
    <2>3. M[f] = <<how(f), T[how(f)][f]>>
        BY <2>2 DEF Fits
    <2> QED  BY <2>3 DEF Meant
<1>2. Show(T, v) = [f \in {g \in Fields(T) : val(g) # <<>>} |-> val(f)]
    BY DEF Show, Fields
<1>3. {g \in Fields(T) : val(g) # <<>>} = {g \in Fields(T) : Meant(M, g, v) # <<>>}
    BY <1>1
<1> HIDE DEF val
<1> QED  BY <1>1, <1>2, <1>3 DEF Showing

\* The tables of the card, the status, the readings and the alerts all read
\* one meaning.
LEMMA CardFits == Fits(Card, Meaning)
    BY DEF Fits, Card, Meaning
LEMMA SensorsCardFits == Fits(SensorsCard, Meaning)
    BY DEF Fits, SensorsCard, Meaning
LEMMA ConfiguredFits == Fits(Configured, Meaning)
    BY DEF Fits, Configured, Meaning
LEMMA LiveFits ==
    /\ Fits(Live, Meaning)
    /\ Fits(SensorReadings, Meaning)
    /\ Fits(Service, Meaning)
    /\ Fits(Alerts, Meaning)
<1>1. Fits(Live, Meaning)  BY DEF Fits, Live, Meaning
<1>2. Fits(SensorReadings, Meaning)  BY DEF Fits, SensorReadings, Meaning
<1>3. Fits(Service, Meaning)  BY DEF Fits, Service, Meaning
<1>4. Fits(Alerts, Meaning)  BY DEF Fits, Alerts, Meaning
<1> QED  BY <1>1, <1>2, <1>3, <1>4

\* So each of them shows what the values have for its fields.
LEMMA ShowIsVals ==
    ASSUME NEW T, NEW v, Fits(T, Meaning)
    PROVE  Show(T, v) = Vals(Fields(T), v)
    BY ShowOfFitting DEF Vals

\* Two sets of fields shown together are the fields of both.
LEMMA ValsJoin ==
    ASSUME NEW F, NEW G, NEW v
    PROVE  Vals(F, v) ++ Vals(G, v) = Vals(F \cup G, v)
BY DEF Vals, Showing, Val, ++

\* The fields the status reads from the cache.
StatusFields == Fields(Configured) \cup Fields(Live) \cup Fields(SensorReadings)
                  \cup Fields(Service)

\* The status in these terms: what the values have, alerts that are off when
\* they have none, and what is computed.
LEMMA StatusAsVals ==
    ASSUME NEW v
    PROVE  BuildStatus(v) =
             Vals(StatusFields, v) ++ (Vals(Fields(Alerts), v) ++ NoAlerts)
               ++ Present([fan_supply_pct |-> LivePct(v, 0),
                           fan_extract_pct |-> LivePct(v, 1),
                           in_user_control |-> <<Bit(ComputeInUserControl(v))>>])
<1>1. ASSUME NEW T, Fits(T, Meaning)  PROVE Show(T, v) = Vals(Fields(T), v)
    BY <1>1, ShowIsVals
<1>2. Show(Configured, v) ++ Show(Live, v) ++ Show(SensorReadings, v) ++ Show(Service, v)
        = Vals(StatusFields, v)
    <2>1. /\ Show(Configured, v) = Vals(Fields(Configured), v)
          /\ Show(Live, v) = Vals(Fields(Live), v)
          /\ Show(SensorReadings, v) = Vals(Fields(SensorReadings), v)
          /\ Show(Service, v) = Vals(Fields(Service), v)
        BY <1>1, ConfiguredFits, LiveFits
    <2> DEFINE A == Fields(Configured)  B == Fields(Live)  C == Fields(SensorReadings)
               D == Fields(Service)
    <2>2. Vals(A, v) ++ Vals(B, v) = Vals(A \cup B, v)
        BY ValsJoin
    <2>3. Vals(A \cup B, v) ++ Vals(C, v) = Vals(A \cup B \cup C, v)
        BY ValsJoin
    <2>4. Vals(A \cup B \cup C, v) ++ Vals(D, v) = Vals(A \cup B \cup C \cup D, v)
        BY ValsJoin
    <2>5. StatusFields = A \cup B \cup C \cup D
        BY DEF StatusFields
    <2> QED  BY <2>1, <2>2, <2>3, <2>4, <2>5
<1>3. DecodeAlerts(v) = Vals(Fields(Alerts), v) ++ NoAlerts
    BY <1>1, LiveFits DEF DecodeAlerts
<1> QED  BY <1>2, <1>3 DEF BuildStatus

\* The names of the status's fields and of the alerts.
LEMMA StatusNames ==
    /\ StatusFields =
         {"power", "heater_enabled", "humidity_sensor_enabled",
          "co2_sensor_enabled", "voc_sensor_enabled", "speed_mode",
          "manual_pct", "airflow_mode", "humidity_threshold_pct",
          "preset1_supply", "preset1_extract", "preset2_supply",
          "preset2_extract", "preset3_supply", "preset3_extract",
          "co2_threshold_ppm", "voc_threshold_index", "heater_running",
          "special_mode", "fan_supply_rpm", "fan_extract_rpm",
          "special_mode_remaining_seconds", "humidity_pct",
          "recovery_efficiency_pct", "eco2_ppm", "voc_index",
          "temp_outdoor_c", "temp_supply_c", "temp_exhaust_inlet_c",
          "temp_exhaust_outlet_c", "filter_status",
          "filter_remaining_seconds", "motor_lifetime_seconds",
          "filter_total_seconds", "rtc_battery_volts", "fault_level",
          "frost_protection_active", "firmware"}
    /\ Fields(Alerts) = {"alert_humidity", "alert_co2", "alert_voc"}
BY DEF StatusFields, Fields, Configured, Live, SensorReadings, Service, Alerts

\* The fields of the status that are computed.
Extra == {"fan_supply_pct", "fan_extract_pct", "in_user_control"}

\* What the status shows of each field.
LEMMA StatusShows ==
    ASSUME NEW v
    PROVE  /\ DOMAIN BuildStatus(v) \subseteq StatusFields \cup Fields(Alerts) \cup Extra
           /\ \A f \in StatusFields :
                /\ f \in DOMAIN BuildStatus(v) <=> Val(f, v) # <<>>
                /\ f \in DOMAIN BuildStatus(v) => BuildStatus(v)[f] = Val(f, v)
           /\ \A f \in Fields(Alerts) :
                /\ f \in DOMAIN BuildStatus(v)
                /\ BuildStatus(v)[f] = IF Val(f, v) # <<>> THEN Val(f, v) ELSE <<0>>
           /\ BuildStatus(v)["in_user_control"] = <<Bit(ComputeInUserControl(v))>>
<1> DEFINE s == BuildStatus(v)
           extra == [fan_supply_pct |-> LivePct(v, 0),
                     fan_extract_pct |-> LivePct(v, 1),
                     in_user_control |-> <<Bit(ComputeInUserControl(v))>>]
<1> HIDE DEF s
<1>1. s = Vals(StatusFields, v) ++ (Vals(Fields(Alerts), v) ++ NoAlerts) ++ Present(extra)
    BY StatusAsVals DEF s
<1>2. /\ DOMAIN Present(extra) \subseteq Extra
      /\ "in_user_control" \in DOMAIN Present(extra)
      /\ Present(extra)["in_user_control"] = <<Bit(ComputeInUserControl(v))>>
    BY DEF Present, Extra
<1>3. DOMAIN NoAlerts = Fields(Alerts) /\ \A f \in Fields(Alerts) : NoAlerts[f] = <<0>>
    BY StatusNames DEF NoAlerts
<1>4. StatusFields \cap (Fields(Alerts) \cup Extra) = {} /\ Fields(Alerts) \cap Extra = {}
    BY StatusNames DEF Extra
<1> HIDE DEF extra
<1> DEFINE a == Vals(StatusFields, v)  b == Vals(Fields(Alerts), v) ++ NoAlerts
<1>5. DOMAIN a = {f \in StatusFields : Val(f, v) # <<>>} /\ \A f \in DOMAIN a : a[f] = Val(f, v)
    BY DEF Vals, Showing, Val
<1>6. DOMAIN b = Fields(Alerts)
      /\ \A f \in Fields(Alerts) : b[f] = IF Val(f, v) # <<>> THEN Val(f, v) ELSE <<0>>
    BY <1>3 DEF Vals, Showing, Val, ++
<1> HIDE DEF a, b
<1>7. s = a ++ b ++ Present(extra)
    BY <1>1 DEF a, b
<1>8. /\ DOMAIN s = DOMAIN a \cup DOMAIN b \cup DOMAIN Present(extra)
      /\ \A f \in DOMAIN a : s[f] = a[f]
      /\ \A f \in DOMAIN b \ DOMAIN a : s[f] = b[f]
      /\ \A f \in DOMAIN Present(extra) \ (DOMAIN a \cup DOMAIN b) : s[f] = Present(extra)[f]
    BY <1>7 DEF ++
<1>9. "in_user_control" \in Extra
    BY DEF Extra
<1> QED  BY <1>2, <1>4, <1>5, <1>6, <1>8, <1>9 DEF s

\* How the names of the card and of the status overlap.
LEMMA CardNames ==
    /\ Fields(Card) \cap (Fields(SensorsCard) \cup {"power", "speed_mode", "needs_attention"}) = {}
    /\ Fields(SensorsCard) \cap {"power", "speed_mode", "needs_attention"} = {}
    /\ Fields(Alerts) \subseteq Fields(SensorsCard)
    /\ {"humidity_sensor_enabled", "co2_sensor_enabled", "voc_sensor_enabled"}
         \subseteq Fields(SensorsCard) \cap StatusFields
    /\ {"power", "speed_mode", "special_mode", "fault_level", "filter_status"}
         \subseteq StatusFields
    /\ "needs_attention" \notin StatusFields \cup Fields(Alerts) \cup Extra
    /\ Extra \cap (Fields(Card) \cup Fields(SensorsCard)
                    \cup {"power", "speed_mode", "needs_attention"}) = {}
    /\ (StatusFields \cup Fields(Alerts)) \cap Extra = {}
    /\ StatusFields \cap Fields(Alerts) = {}
<1>1. Fields(Card) = {"heater_enabled", "manual_pct", "airflow_mode", "special_mode",
         "preset1_supply", "preset1_extract", "preset2_supply",
         "preset2_extract", "preset3_supply", "preset3_extract", "fault_level",
         "special_mode_remaining_seconds", "night_duration_seconds",
         "turbo_duration_seconds", "firmware", "filter_status",
         "filter_remaining_seconds", "motor_lifetime_seconds",
         "rtc_battery_volts"}
    BY DEF Fields, Card
<1>2. Fields(SensorsCard) = {"humidity_pct", "recovery_efficiency_pct", "humidity_threshold_pct",
         "eco2_ppm", "voc_index", "co2_threshold_ppm", "voc_threshold_index",
         "fan_supply_rpm", "fan_extract_rpm", "temp_outdoor_c",
         "temp_supply_c", "temp_exhaust_inlet_c", "temp_exhaust_outlet_c",
         "humidity_sensor_enabled", "co2_sensor_enabled", "voc_sensor_enabled",
         "alert_humidity", "alert_co2", "alert_voc"}
    BY DEF Fields, SensorsCard
<1> QED  BY <1>1, <1>2, StatusNames DEF Extra

\* The card shows what the status shows, whatever the values, but for the
\* power button; and it wants attention for a fault or a filter to change.
LEMMA CardShows ==
    ASSUME NEW v
    PROVE  LET card == snapshotToView(v)
               s == BuildStatus(v)
               timer == "special_mode" \in DOMAIN s /\ s.special_mode # <<0>>
           IN /\ \A f \in (DOMAIN s \cap DOMAIN card) \ {"power"} : card[f] = s[f]
              /\ "power" \in DOMAIN s => card.power = <<Bit(s.power = <<1>> \/ timer)>>
              /\ {"fault_level", "filter_status"} \subseteq DOMAIN s =>
                   (card.needs_attention = <<1>> <=>
                      s.fault_level # <<0>> \/ s.filter_status = <<1>>)
<1> DEFINE s == BuildStatus(v)
           power == Has(v, 1, 1) /\ Byte1(v, 1) = 1
           timer == Has(v, 7, 1) /\ Byte1(v, 7) # 0
           fault == Has(v, 131, 1) /\ Byte1(v, 131) # 0
           soiled == Has(v, 136, 1) /\ Byte1(v, 136) # 0
           mode == IF Has(v, 2, 1) /\ Byte1(v, 2) \in {1, 2, 3, 255}
                   THEN <<Byte1(v, 2)>> ELSE <<>>
           made == Present([power |-> <<Bit(power \/ timer)>>, speed_mode |-> mode,
                     needs_attention |-> <<Bit(fault \/ soiled)>>])
           on == [humidity_sensor_enabled |-> <<1>>, co2_sensor_enabled |-> <<1>>,
                  voc_sensor_enabled |-> <<1>>]
           card == snapshotToView(v)
           a == Vals(Fields(Card), v)
           b == Vals(Fields(SensorsCard), v) ++ NoAlerts ++ on
<1>1. Show(Card, v) = a /\ Show(SensorsCard, v) = Vals(Fields(SensorsCard), v)
    BY ShowIsVals, CardFits, SensorsCardFits
<1>2. card = a ++ b ++ made
    <2> HIDE DEF a, on
    <2>1. snapshotToView(v) = Show(Card, v) ++ sensorsViewFrom(v) ++ made
        BY DEF snapshotToView
    <2>2. sensorsViewFrom(v) = b
        BY <1>1 DEF sensorsViewFrom, on
    <2> QED  BY <1>1, <2>1, <2>2
<1>3. /\ DOMAIN made = {"power", "needs_attention"} \cup (IF mode # <<>> THEN {"speed_mode"} ELSE {})
      /\ made["power"] = <<Bit(power \/ timer)>>
      /\ "speed_mode" \in DOMAIN made => made["speed_mode"] = mode
      /\ made["needs_attention"] = <<Bit(fault \/ soiled)>>
    <2> HIDE DEF power, timer, fault, soiled, mode
    <2> QED BY DEF Present
<1>4. DOMAIN a = {f \in Fields(Card) : Val(f, v) # <<>>} /\ \A f \in DOMAIN a : a[f] = Val(f, v)
    BY DEF Vals, Showing, Val
<1>5. DOMAIN NoAlerts = Fields(Alerts) /\ \A f \in Fields(Alerts) : NoAlerts[f] = <<0>>
    BY StatusNames DEF NoAlerts
<1>6. DOMAIN on = {"humidity_sensor_enabled", "co2_sensor_enabled", "voc_sensor_enabled"}
    OBVIOUS
<1>7. /\ DOMAIN b \subseteq Fields(SensorsCard)
      /\ \A f \in DOMAIN b : Val(f, v) # <<>> => b[f] = Val(f, v)
      /\ \A f \in Fields(Alerts) : Val(f, v) = <<>> => b[f] = <<0>>
      /\ \A f \in Fields(SensorsCard) : Val(f, v) # <<>> => f \in DOMAIN b
    <2> DEFINE c == Vals(Fields(SensorsCard), v)
    <2>1. DOMAIN c = {f \in Fields(SensorsCard) : Val(f, v) # <<>>}
          /\ \A f \in DOMAIN c : c[f] = Val(f, v)
        BY DEF Vals, Showing, Val
    <2>2. b = c ++ NoAlerts ++ on
        OBVIOUS
    <2> HIDE DEF c, on, b
    <2>3. /\ DOMAIN b = DOMAIN c \cup DOMAIN NoAlerts \cup DOMAIN on
          /\ \A f \in DOMAIN c : b[f] = c[f]
          /\ \A f \in DOMAIN NoAlerts \ DOMAIN c : b[f] = NoAlerts[f]
        BY <2>2 DEF ++
    <2> QED  BY <1>5, <1>6, <2>1, <2>3, CardNames
<1> HIDE DEF a, b, made, on
<1>8. /\ DOMAIN card = DOMAIN a \cup DOMAIN b \cup DOMAIN made
      /\ \A f \in DOMAIN a : card[f] = a[f]
      /\ \A f \in DOMAIN b \ DOMAIN a : card[f] = b[f]
      /\ \A f \in DOMAIN made \ (DOMAIN a \cup DOMAIN b) : card[f] = made[f]
    BY <1>2 DEF ++
<1> HIDE DEF card, s
<1>9. Val("speed_mode", v) # <<>> => Val("speed_mode", v) = <<Byte1(v, 2)>> /\ Has(v, 2, 1)
    BY DEF Val, Meant, Meaning, Reads, Has, Byte1
<1>10. ASSUME NEW f \in (DOMAIN s \cap DOMAIN card) \ {"power"}
       PROVE  card[f] = s[f]
    <2>1. f \in StatusFields \cup Fields(Alerts)
        BY <1>3, <1>4, <1>7, <1>8, StatusShows, CardNames DEF s
    <2>2. CASE f \in StatusFields
        <3>1. Val(f, v) # <<>> /\ s[f] = Val(f, v)
            BY <2>2, StatusShows DEF s
        <3>2. CASE f = "speed_mode"
            <4>1. card[f] = made[f] /\ f \in DOMAIN made
                BY <3>2, <1>4, <1>7, <1>8, CardNames
            <4> QED  BY <1>3, <1>9, <3>1, <3>2, <4>1
        <3>3. CASE f # "speed_mode"
            <4>1. f \notin DOMAIN made
                BY <2>2, <3>3, <1>3, CardNames
            <4> QED  BY <3>1, <4>1, <1>4, <1>7, <1>8
        <3> QED  BY <3>2, <3>3
    <2>3. CASE f \in Fields(Alerts)
        BY <2>3, <1>3, <1>4, <1>7, <1>8, CardNames, StatusShows DEF s
    <2> QED  BY <2>1, <2>2, <2>3
<1>11. ASSUME "power" \in DOMAIN s
       PROVE  /\ s["power"] = <<1>> <=> power
              /\ card["power"] = <<Bit(power \/ timer)>>
    <2>1. Val("power", v) # <<>> /\ s["power"] = Val("power", v)
        BY <1>11, StatusShows, CardNames DEF s
    <2>2. Val("power", v) # <<>> => (Val("power", v) = <<1>> <=> power)
        BY DEF Val, Meant, Meaning, Reads, Has, Byte1, Bit
    <2>3. card["power"] = made["power"]
        BY <1>3, <1>4, <1>7, <1>8, CardNames
    <2> QED  BY <1>3, <2>1, <2>2, <2>3
<1>12. ("special_mode" \in DOMAIN s /\ s["special_mode"] # <<0>>) <=> timer
    <2>1. "special_mode" \in DOMAIN s <=> Val("special_mode", v) # <<>>
        BY StatusShows, CardNames DEF s
    <2>2. "special_mode" \in DOMAIN s => s["special_mode"] = Val("special_mode", v)
        BY StatusShows, CardNames DEF s
    <2>3. (Val("special_mode", v) # <<>> /\ Val("special_mode", v) # <<0>>) <=> timer
        BY DEF Val, Meant, Meaning, Reads, Has, Byte1
    <2> QED  BY <2>1, <2>2, <2>3
<1>13. ASSUME {"fault_level", "filter_status"} \subseteq DOMAIN s
       PROVE  /\ s["fault_level"] # <<0>> <=> fault
              /\ s["filter_status"] = <<1>> <=> soiled
    <2>1. /\ Val("fault_level", v) # <<>> /\ s["fault_level"] = Val("fault_level", v)
          /\ Val("filter_status", v) # <<>> /\ s["filter_status"] = Val("filter_status", v)
        BY <1>13, StatusShows, CardNames DEF s
    <2>2. Val("fault_level", v) # <<>> => (Val("fault_level", v) # <<0>> <=> fault)
        BY DEF Val, Meant, Meaning, Reads, Has, Byte1
    <2>3. Val("filter_status", v) # <<>> => (Val("filter_status", v) = <<1>> <=> soiled)
        BY DEF Val, Meant, Meaning, Reads, Has, Byte1, Bit
    <2> QED  BY <2>1, <2>2, <2>3
<1>14. card["needs_attention"] = <<1>> <=> fault \/ soiled
    <2>1. card["needs_attention"] = made["needs_attention"]
        BY <1>3, <1>4, <1>7, <1>8, CardNames
    <2> HIDE DEF fault, soiled
    <2> QED  BY <1>3, <2>1 DEF Bit
<1> HIDE DEF power, timer, fault, soiled, mode
<1>15. "power" \in DOMAIN s =>
         card["power"] = <<Bit(s["power"] = <<1>>
                                 \/ ("special_mode" \in DOMAIN s /\ s["special_mode"] # <<0>>))>>
    <2> SUFFICES ASSUME "power" \in DOMAIN s
                 PROVE  card["power"] = <<Bit(s["power"] = <<1>>
                          \/ ("special_mode" \in DOMAIN s /\ s["special_mode"] # <<0>>))>>
        OBVIOUS
    <2> QED  BY <1>11, <1>12 DEF Bit
<1> QED  BY <1>10, <1>13, <1>14, <1>15 DEF s, card

\* The gauges read the status's switches as on for any number but 0.
GaugeMeaning == [f \in DOMAIN Meaning |-> IF f \in DOMAIN Toggles
                                          THEN <<"nonZero", Toggles[f]>> ELSE Meaning[f]]

\* The gauges there may ever be.
GaugeNames == Fields(Gauges) \cup {"in_user_control"}

\* The tables of the gauges read their own meaning.
LEMMA GaugeFields ==
    /\ Toggles = [power |-> 1, heater_enabled |-> 104,
                  humidity_sensor_enabled |-> 15, co2_sensor_enabled |-> 17,
                  voc_sensor_enabled |-> 789, heater_running |-> 129,
                  frost_protection_active |-> 779]
    /\ Fits(Gauges, GaugeMeaning)
    /\ Fields(Gauges) \subseteq DOMAIN Meaning
    /\ \A f \in DOMAIN Toggles : Meaning[f] = <<"isOne", Toggles[f]>>
    /\ Fields(Alerts) \cup DOMAIN Toggles \subseteq Fields(Gauges)
    /\ Fields(Alerts) \cap DOMAIN Toggles = {}
    /\ GaugeNames \cap Extra = {"in_user_control"}
    /\ "in_user_control" \notin Fields(Gauges)
<1>1. Toggles = [power |-> 1, heater_enabled |-> 104,
                  humidity_sensor_enabled |-> 15, co2_sensor_enabled |-> 17,
                  voc_sensor_enabled |-> 789, heater_running |-> 129,
                  frost_protection_active |-> 779]
    BY DEF Toggles, Configured, Live, Service, ++
<1>2. Fields(Gauges) \subseteq DOMAIN Meaning
    BY DEF Fields, Gauges, Meaning
<1>3. Fits(Gauges, GaugeMeaning)
    <2>1. \A h \in DOMAIN Gauges : \A f \in DOMAIN Gauges[h] :
            f \notin DOMAIN Toggles => Meaning[f] = <<h, Gauges[h][f]>>
        BY <1>1 DEF Gauges, Meaning
    <2>2. \A h \in DOMAIN Gauges : \A f \in DOMAIN Gauges[h] :
            f \in DOMAIN Toggles => h = "nonZero" /\ Toggles[f] = Gauges[h][f]
        BY <1>1 DEF Gauges
    <2> QED  BY <1>2, <2>1, <2>2 DEF Fits, GaugeMeaning, Fields
<1>4. \A f \in DOMAIN Toggles : Meaning[f] = <<"isOne", Toggles[f]>>
    BY <1>1 DEF Meaning
<1>5. Fields(Alerts) \cup DOMAIN Toggles \subseteq Fields(Gauges)
    BY <1>1, StatusNames DEF Fields, Gauges
<1>6. Fields(Alerts) \cap DOMAIN Toggles = {}
    BY <1>1, StatusNames
<1>7. GaugeNames \cap Extra = {"in_user_control"} /\ "in_user_control" \notin Fields(Gauges)
    BY DEF Fields, Gauges, GaugeNames, Extra
<1> QED  BY <1>1, <1>2, <1>3, <1>4, <1>5, <1>6, <1>7

\* A gauge after a scrape is the status's field, up to odd switches and absent
\* alerts.
LEMMA GaugesShow ==
    ASSUME NEW g, NEW v, g = Update(g, v), DOMAIN g \subseteq GaugeNames,
           NEW f \in DOMAIN BuildStatus(v) \cap DOMAIN g
    PROVE  \/ g[f] = BuildStatus(v)[f]
           \/ f \in DOMAIN Toggles /\ v[Toggles[f]] \notin {<<0>>, <<1>>}
           \/ f \in DOMAIN NoAlerts \ DOMAIN Show(Alerts, v)
<1> DEFINE s == BuildStatus(v)
           G == Showing(GaugeMeaning, Fields(Gauges), v)
           odd == f \in DOMAIN Toggles /\ v[Toggles[f]] \notin {<<0>>, <<1>>}
           u == [in_user_control |-> <<Bit(ComputeInUserControl(v))>>]
<1>1. g = G ++ u ++ g
    BY ShowOfFitting, GaugeFields DEF Update
<1>2. /\ DOMAIN G = {x \in Fields(Gauges) : Meant(GaugeMeaning, x, v) # <<>>}
      /\ \A x \in DOMAIN G : G[x] = Meant(GaugeMeaning, x, v)
    BY DEF Showing
<1>3. DOMAIN u = {"in_user_control"} /\ u["in_user_control"] = <<Bit(ComputeInUserControl(v))>>
    OBVIOUS
<1> HIDE DEF G, u
<1>4. /\ \A x \in DOMAIN G : g[x] = G[x]
      /\ \A x \in DOMAIN u \ DOMAIN G : g[x] = u[x]
    <2>1. ASSUME NEW d, d = G ++ u ++ g
          PROVE  /\ \A x \in DOMAIN G : d[x] = G[x]
                 /\ \A x \in DOMAIN u \ DOMAIN G : d[x] = u[x]
        BY <2>1 DEF ++
    <2> QED  BY <1>1, <2>1
<1> HIDE DEF s
<1>5. ASSUME f \in StatusFields \cup Fields(Alerts), Val(f, v) # <<>>, ~odd,
             f \in Fields(Gauges)
      PROVE  g[f] = s[f]
    <2>1. s[f] = Val(f, v)
        BY <1>5, StatusShows DEF s
    <2>2. Meant(GaugeMeaning, f, v) = Val(f, v)
        <3>1. CASE f \in DOMAIN Toggles
            <4>1. /\ Meaning[f] = <<"isOne", Toggles[f]>>
                  /\ GaugeMeaning[f] = <<"nonZero", Toggles[f]>>
                BY <3>1, <1>5, GaugeFields DEF GaugeMeaning
            <4>2. v[Toggles[f]] \in {<<0>>, <<1>>}
                BY <1>5, <3>1
            <4>3. ASSUME NEW n \in {0, 1}
                  PROVE  Reads("isOne", <<n>>) = Reads("nonZero", <<n>>)
                BY DEF Reads, Bit
            <4> QED  BY <4>1, <4>2, <4>3 DEF Meant, Val
        <3>2. CASE f \notin DOMAIN Toggles
            <4>1. GaugeMeaning[f] = Meaning[f]
                BY <3>2, <1>5, GaugeFields DEF GaugeMeaning
            <4> QED  BY <4>1 DEF Meant, Val
        <3> QED  BY <3>1, <3>2
    <2> QED  BY <1>2, <1>4, <1>5, <2>1, <2>2
<1>6. CASE f \in StatusFields
    <2>1. f \in Fields(Gauges)
        BY <1>6, CardNames, GaugeFields DEF GaugeNames, Extra
    <2> QED  BY <1>5, <1>6, <2>1, StatusShows DEF s
<1>7. CASE f \in Fields(Alerts)
    <2>1. f \in Fields(Gauges) /\ DOMAIN NoAlerts = Fields(Alerts)
        BY <1>7, GaugeFields, StatusNames DEF NoAlerts
    <2>2. DOMAIN Show(Alerts, v) = {x \in Fields(Alerts) : Val(x, v) # <<>>}
        BY ShowIsVals, LiveFits DEF Vals, Showing, Val
    <2> QED  BY <1>5, <1>7, <2>1, <2>2 DEF s
<1>8. CASE f = "in_user_control"
    <2>1. f \notin DOMAIN G
        BY <1>2, <1>8, GaugeFields
    <2> QED  BY <1>3, <1>4, <1>8, <2>1, StatusShows DEF s
<1>9. f \in StatusFields \cup Fields(Alerts) \cup Extra
    BY StatusShows
<1>10. f \in Extra => f = "in_user_control"
    BY GaugeFields
<1> QED  BY <1>6, <1>7, <1>8, <1>9, <1>10 DEF s

\* The characteristics Sync computes, and all it sets.
MadeNames == {"target_auto", "supply_only", "extract_only", "night", "turbo", "status_fault",
              "low_battery", "battery_level", "air_quality", "co2_detected", "filter_life"}
HapNames == Copied \cup {"active", "purifier_state", "rotation_speed"} \cup MadeNames

\* How the names of the characteristics and of the status overlap.
LEMMA HapFields ==
    /\ Copied \subseteq StatusFields
    /\ HapNames \cap (StatusFields \cup Fields(Alerts) \cup Extra) = Copied
    /\ Copied \cap ({"active", "purifier_state", "rotation_speed"} \cup MadeNames) = {}
    /\ {"active", "purifier_state", "rotation_speed"} \cap MadeNames = {}
    /\ "filter_status" \in Copied
    /\ "filter_status" \notin DOMAIN SensorReadings.temp
    /\ "power" \in StatusFields /\ "fault_level" \in StatusFields
BY StatusNames DEF Copied, HapNames, MadeNames, Extra, SensorReadings

\* The characteristics whose scale a status can leave.
LEMMA ScaleFields ==
    DOMAIN Scales = DOMAIN SensorReadings.temp \cup {"humidity_pct", "voc_index"}
<1>1. DOMAIN [f \in DOMAIN SensorReadings.temp |-> <<-400, 850>>] = DOMAIN SensorReadings.temp
    OBVIOUS
<1>2. DOMAIN [humidity_pct |-> <<0, 100>>, voc_index |-> <<0, 1000>>] =
          {"humidity_pct", "voc_index"}
    OBVIOUS
<1> QED  BY <1>1, <1>2 DEF Scales, ++

\* A single number is set as it is, or pegged.
LEMMA SetOrPegged ==
    ASSUME NEW f, NEW v, f \in DOMAIN Scales => v = <<v[1]>>
    PROVE  OnScale(f, v) = v \/ Pegged(f, v, OnScale(f, v))
<1>1. CASE f \in DOMAIN Scales
    <2> DEFINE lo == Scales[f][1]
               hi == Scales[f][2]
    <2>1. OnScale(f, v) = <<Between(lo, hi, v[1])>>
        BY <1>1 DEF OnScale
    <2> HIDE DEF lo, hi
    <2>2. CASE v[1] < lo
        <3>1. OnScale(f, v) = <<lo>>
            BY <2>1, <2>2 DEF Between
        <3> QED  BY <1>1, <2>2, <3>1 DEF Pegged, lo
    <2>3. CASE v[1] > hi /\ ~(v[1] < lo)
        <3>1. OnScale(f, v) = <<hi>>
            BY <2>1, <2>3 DEF Between
        <3> QED  BY <1>1, <2>3, <3>1 DEF Pegged, hi
    <2>4. CASE ~(v[1] < lo) /\ ~(v[1] > hi)
        BY <1>1, <2>1, <2>4 DEF Between
    <2> QED  BY <2>2, <2>3, <2>4
<1>2. CASE f \notin DOMAIN Scales
    BY <1>2 DEF OnScale
<1> QED  BY <1>1, <1>2

\* What the status shows of these is a single number.
LEMMA ScaleSingle ==
    ASSUME NEW v, NEW f \in DOMAIN Scales, f \in DOMAIN BuildStatus(v)
    PROVE  BuildStatus(v)[f] = <<BuildStatus(v)[f][1]>>
<1>1. f \in StatusFields /\ f \in {"humidity_pct", "voc_index", "temp_outdoor_c",
          "temp_supply_c", "temp_exhaust_inlet_c", "temp_exhaust_outlet_c"}
    BY ScaleFields, StatusNames DEF SensorReadings
<1>2. Val(f, v) # <<>> => Val(f, v) = <<Val(f, v)[1]>>
    <2>1. Meaning[f][1] \in {"u8", "u16", "temp"}
        BY <1>1 DEF Meaning
    <2>2. \A how \in {"u8", "u16", "temp"} : \A raw :
              Reads(how, raw) # <<>> => Reads(how, raw) = <<Reads(how, raw)[1]>>
        BY DEF Reads
    <2> QED  BY <2>1, <2>2 DEF Val, Meant
<1>3. BuildStatus(v)[f] = Val(f, v) /\ Val(f, v) # <<>>
    BY <1>1, StatusShows
<1>4. Val(f, v) = <<Val(f, v)[1]>>
    BY <1>2, <1>3
<1> QED  BY <1>3, <1>4

\* The parts of what HomeKit is shown.
LEMMA SyncParts ==
    ASSUME NEW s
    PROVE  /\ DOMAIN Purifier(s) = IF "power" \in DOMAIN s THEN {"active", "purifier_state"} ELSE {}
           /\ DOMAIN Slider(s) \subseteq {"rotation_speed"}
           /\ DOMAIN Made(s) \subseteq MadeNames
           /\ "fault_level" \in DOMAIN s =>
                /\ "status_fault" \in DOMAIN Made(s)
                /\ Made(s)["status_fault"] = <<Bit(s["fault_level"][1] # 0)>>
<1>1. DOMAIN Purifier(s) = IF "power" \in DOMAIN s THEN {"active", "purifier_state"} ELSE {}
    BY DEF Purifier
<1>2. DOMAIN Slider(s) \subseteq {"rotation_speed"}
    BY DEF Slider
<1>3. DOMAIN Made(s) \subseteq MadeNames
    BY DEF Made, Present, MadeNames
<1>4. ASSUME "fault_level" \in DOMAIN s
      PROVE  /\ "status_fault" \in DOMAIN Made(s)
             /\ Made(s)["status_fault"] = <<Bit(s["fault_level"][1] # 0)>>
    BY <1>4 DEF Made, Present, Flag
<1> QED  BY <1>1, <1>2, <1>3, <1>4

\* Written twice, the same snapshot changes nothing more.
LEMMA WrittenTwice ==
    ASSUME NEW a, NEW b, NEW c, c = a ++ b
    PROVE  a ++ c = c
BY DEF ++

\* So a scrape after a scrape of the same values leaves the gauges.
LEMMA UpdateTwice ==
    ASSUME NEW g, NEW v, DOMAIN g \subseteq GaugeNames
    PROVE  /\ Update(Update(g, v), v) = Update(g, v)
           /\ DOMAIN Update(g, v) \subseteq GaugeNames
<1> DEFINE G == Show(Gauges, v)
           u == [in_user_control |-> <<Bit(ComputeInUserControl(v))>>]
           a == G ++ u
<1>1. Update(g, v) = a ++ g /\ Update(Update(g, v), v) = a ++ Update(g, v)
    BY DEF Update
<1>2. DOMAIN a \subseteq GaugeNames
    <2>1. DOMAIN G \subseteq Fields(Gauges)
        BY DEF Show, Fields
    <2>2. DOMAIN u = {"in_user_control"}
        OBVIOUS
    <2> HIDE DEF G, u
    <2> QED  BY <2>1, <2>2 DEF GaugeNames, ++
<1> HIDE DEF a
<1>3. DOMAIN (a ++ g) = DOMAIN a \cup DOMAIN g
    BY DEF ++
<1> QED  BY <1>1, <1>2, <1>3, WrittenTwice

\* The purifier's two characteristics come together and say the same.
Mirrored(t) ==
    /\ "purifier_state" \in DOMAIN t <=> "active" \in DOMAIN t
    /\ "purifier_state" \in DOMAIN t =>
         (t["active"] = <<0>> <=> t["purifier_state"] = <<0>>)

\* And a Sync after a Sync of the same status leaves the characteristics.
LEMMA SyncTwice ==
    ASSUME NEW t, NEW s, DOMAIN t \subseteq HapNames
    PROVE  /\ Sync(Sync(t, s), s) = Sync(t, s)
           /\ DOMAIN Sync(t, s) \subseteq HapNames
<1> DEFINE C == [f \in {g \in Copied \cap DOMAIN s : ~Unbelievable(s, g)} |-> OnScale(f, s[f])]
           a == C ++ Purifier(s) ++ Slider(s) ++ Made(s)
<1>1. Sync(t, s) = a ++ t /\ Sync(Sync(t, s), s) = a ++ Sync(t, s)
    BY DEF Sync
<1>2. DOMAIN a \subseteq HapNames
    <2>1. DOMAIN C \subseteq Copied
        OBVIOUS
    <2> HIDE DEF C
    <2>2. DOMAIN a = DOMAIN C \cup DOMAIN Purifier(s) \cup DOMAIN Slider(s) \cup DOMAIN Made(s)
        BY DEF ++
    <2> QED  BY <2>1, <2>2, SyncParts DEF HapNames
<1> HIDE DEF a
<1>3. DOMAIN (a ++ t) = DOMAIN a \cup DOMAIN t
    BY DEF ++
<1> QED  BY <1>1, <1>2, <1>3, WrittenTwice

\* What Sync has written, and what it keeps.
LEMMA SyncWrites ==
    ASSUME NEW t, NEW v, DOMAIN t \subseteq HapNames
    PROVE  LET s == BuildStatus(v)
               h == Sync(t, s) IN
           /\ \A f \in Copied \cap DOMAIN s :
                h[f] = s[f] \/ Unbelievable(s, f) \/ Pegged(f, s[f], h[f])
           /\ "fault_level" \in DOMAIN s =>
                h["status_fault"] = <<Bit(s["fault_level"][1] # 0)>>
           /\ Mirrored(t) => Mirrored(h)
<1> DEFINE s == BuildStatus(v)
           h == Sync(t, s)
           C == [f \in {g \in Copied \cap DOMAIN s : ~Unbelievable(s, g)} |-> OnScale(f, s[f])]
           P == Purifier(s)
           L == Slider(s)
           M == Made(s)
<1>1. h = C ++ P ++ L ++ M ++ t
    BY DEF Sync
<1>2. DOMAIN C = {g \in Copied \cap DOMAIN s : ~Unbelievable(s, g)}
      /\ \A f \in DOMAIN C : C[f] = OnScale(f, s[f])
    OBVIOUS
<1>10. \A f \in DOMAIN s : OnScale(f, s[f]) = s[f] \/ Pegged(f, s[f], OnScale(f, s[f]))
    <2> TAKE f \in DOMAIN s
    <2>1. f \in DOMAIN Scales => s[f] = <<s[f][1]>>
        BY ScaleSingle
    <2> HIDE DEF s
    <2> QED  BY <2>1, SetOrPegged
<1>3. "power" \in DOMAIN s => P["active"] = <<0>> <=> P["purifier_state"] = <<0>>
    <2> SUFFICES ASSUME "power" \in DOMAIN s
                 PROVE  P["active"] = <<0>> <=> P["purifier_state"] = <<0>>
        OBVIOUS
    <2>1. s["power"] \in {<<0>>, <<1>>}
        <3>1. Val("power", v) # <<>> => Val("power", v) \in {<<0>>, <<1>>}
            BY DEF Val, Meant, Meaning, Reads, Bit
        <3> QED  BY <3>1, StatusShows, HapFields
    <2> HIDE DEF s
    <2>2. CASE s["power"] = <<0>>
        BY <2>2 DEF Purifier
    <2>3. CASE s["power"] = <<1>>
        BY <2>3 DEF Purifier
    <2> QED  BY <2>1, <2>2, <2>3
<1>4. /\ DOMAIN P = IF "power" \in DOMAIN s THEN {"active", "purifier_state"} ELSE {}
      /\ DOMAIN L \subseteq {"rotation_speed"}
      /\ DOMAIN M \subseteq MadeNames
      /\ "fault_level" \in DOMAIN s =>
                /\ "status_fault" \in DOMAIN M
                /\ M["status_fault"] = <<Bit(s["fault_level"][1] # 0)>>
    BY SyncParts
<1> HIDE DEF C, P, L, M, s, h
<1>5. /\ DOMAIN h = DOMAIN C \cup DOMAIN P \cup DOMAIN L \cup DOMAIN M \cup DOMAIN t
      /\ \A f \in DOMAIN C : h[f] = C[f]
      /\ \A f \in DOMAIN P \ DOMAIN C : h[f] = P[f]
      /\ \A f \in DOMAIN M \ (DOMAIN C \cup DOMAIN P \cup DOMAIN L) : h[f] = M[f]
      /\ \A f \in DOMAIN t \ (DOMAIN C \cup DOMAIN P \cup DOMAIN L \cup DOMAIN M) : h[f] = t[f]
    BY <1>1 DEF ++
<1>6. {"active", "purifier_state"} \cap (Copied \cup {"rotation_speed"} \cup MadeNames) = {}
      /\ "status_fault" \in MadeNames
    BY DEF Copied, MadeNames
<1>7. Mirrored(t) => Mirrored(h)
    <2>1. CASE "power" \in DOMAIN s
        BY <2>1, <1>2, <1>3, <1>4, <1>5, <1>6 DEF Mirrored
    <2>2. CASE "power" \notin DOMAIN s
        BY <2>2, <1>2, <1>4, <1>5, <1>6 DEF Mirrored
    <2> QED  BY <2>1, <2>2
<1>8. "fault_level" \in DOMAIN s => h["status_fault"] = <<Bit(s["fault_level"][1] # 0)>>
    BY <1>2, <1>4, <1>5, <1>6, HapFields
<1>9. \A f \in Copied \cap DOMAIN s :
          h[f] = s[f] \/ Unbelievable(s, f) \/ Pegged(f, s[f], h[f])
    BY <1>2, <1>5, <1>10
<1> QED  BY <1>7, <1>8, <1>9 DEF h, s

\* Writing the cached values once more would change nothing that is fresh.
Shown == /\ DOMAIN gauges \subseteq GaugeNames
         /\ DOMAIN hap \subseteq HapNames
         /\ Mirrored(hap)
         /\ "gauges" \in fresh => gauges = Update(gauges, values)
         /\ "hap" \in fresh => hap = Sync(hap, BuildStatus(values))

\* At the start nothing is shown.
LEMMA ShownInit == ReadingsInit => Shown
BY DEF ReadingsInit, Shown, Mirrored

\* A poll, a write, a scrape or a change keeps what is fresh a fixed point of
\* its own writing.
LEMMA ShownNext == Shown /\ [ReadingsNext]_readingsVars => Shown'
<1> SUFFICES ASSUME Shown, [ReadingsNext]_readingsVars
             PROVE  Shown'
    OBVIOUS
<1>1. ASSUME NEW ids, PollOf(ids), fresh' \in {{"hap", "poll"}, {"hap"}}
      PROVE  Shown'
    <2>1. /\ gauges' = gauges
          /\ hap' = Sync(hap, BuildStatus(values'))
          /\ "gauges" \notin fresh'
        BY <1>1 DEF PollOf
    <2>2. /\ DOMAIN hap \subseteq HapNames
          /\ Mirrored(hap)
          /\ DOMAIN gauges \subseteq GaugeNames
        BY DEF Shown
    <2>3. ASSUME NEW h, NEW v, NEW t, DOMAIN t \subseteq HapNames, Mirrored(t),
                 h = Sync(t, BuildStatus(v))
          PROVE  /\ DOMAIN h \subseteq HapNames
                 /\ Mirrored(h)
                 /\ h = Sync(h, BuildStatus(v))
        BY <2>3, SyncTwice, SyncWrites
    <2> QED  BY <2>1, <2>2, <2>3 DEF Shown
<1>2. CASE Poll
    BY <1>1, <1>2 DEF Poll
<1>3. CASE PollSettling
    BY <1>1, <1>3 DEF PollSettling
<1>4. CASE PollPartly
    BY <1>4 DEF PollPartly, Shown
<1>5. CASE Write
    BY <1>5 DEF Write, Shown
<1>6. CASE Scrape
    <2>1. /\ gauges' = Update(gauges, values)
          /\ values' = values /\ hap' = hap /\ fresh' = fresh \cup {"gauges"}
        BY <1>6 DEF Scrape
    <2>2. DOMAIN gauges \subseteq GaugeNames
        BY DEF Shown
    <2>3. /\ DOMAIN gauges' \subseteq GaugeNames
          /\ gauges' = Update(gauges', values)
        BY <2>1, <2>2, UpdateTwice
    <2> QED  BY <2>1, <2>3 DEF Shown
<1>7. CASE Change
    BY <1>7 DEF Change, Shown
<1>8. CASE UNCHANGED readingsVars
    BY <1>8 DEF readingsVars, Shown
<1> QED  BY <1>2, <1>3, <1>4, <1>5, <1>6, <1>7, <1>8 DEF ReadingsNext

\* And what is a fixed point agrees with the status.
LEMMA ShownAgrees == Shown => ViewsAgree
<1> SUFFICES ASSUME Shown  PROVE  ViewsAgree
    OBVIOUS
<1> DEFINE s == BuildStatus(values)
           card == snapshotToView(values)
           timer == "special_mode" \in DOMAIN s /\ s.special_mode # <<0>>
<1>1. /\ \A f \in (DOMAIN s \cap DOMAIN card) \ {"power"} : card[f] = s[f]
      /\ "power" \in DOMAIN s => card.power = <<Bit(s.power = <<1>> \/ timer)>>
      /\ {"fault_level", "filter_status"} \subseteq DOMAIN s =>
           (card.needs_attention = <<1>> <=>
              s.fault_level # <<0>> \/ s.filter_status = <<1>>)
    BY CardShows
<1>2. ASSUME "gauges" \in fresh, NEW f \in DOMAIN s \cap DOMAIN gauges
      PROVE  \/ gauges[f] = s[f]
             \/ Odd(f)
             \/ f \in DOMAIN NoAlerts \ DOMAIN Show(Alerts, values)
    <2>1. gauges = Update(gauges, values) /\ DOMAIN gauges \subseteq GaugeNames
        BY <1>2 DEF Shown
    <2> QED  BY <1>2, <2>1, GaugesShow DEF Odd
<1>3. ASSUME "hap" \in fresh
      PROVE  /\ \A f \in DOMAIN s \cap DOMAIN hap :
                  hap[f] = s[f] \/ Unbelievable(s, f) \/ Pegged(f, s[f], hap[f])
             /\ {"status_fault", "filter_status"} \subseteq DOMAIN hap
                 /\ {"fault_level", "filter_status"} \subseteq DOMAIN s =>
                   ((hap.status_fault = <<1>> \/ hap.filter_status = <<1>>)
                      <=> card.needs_attention = <<1>>)
             /\ "purifier_state" \in DOMAIN hap =>
                  (hap.active = <<0>> <=> hap.purifier_state = <<0>>)
    <2>1. hap = Sync(hap, s) /\ DOMAIN hap \subseteq HapNames /\ Mirrored(hap)
        BY <1>3 DEF Shown
    <2>2. /\ \A f \in Copied \cap DOMAIN s :
               hap[f] = s[f] \/ Unbelievable(s, f) \/ Pegged(f, s[f], hap[f])
          /\ "fault_level" \in DOMAIN s =>
               hap["status_fault"] = <<Bit(s["fault_level"][1] # 0)>>
        <3>1. ASSUME NEW t, NEW v, DOMAIN t \subseteq HapNames, t = Sync(t, BuildStatus(v))
              PROVE  /\ \A f \in Copied \cap DOMAIN BuildStatus(v) :
                          \/ t[f] = BuildStatus(v)[f]
                          \/ Unbelievable(BuildStatus(v), f)
                          \/ Pegged(f, BuildStatus(v)[f], t[f])
                     /\ "fault_level" \in DOMAIN BuildStatus(v) =>
                          t["status_fault"] = <<Bit(BuildStatus(v)["fault_level"][1] # 0)>>
            BY <3>1, SyncWrites
        <3> QED  BY <2>1, <3>1
    <2>3. DOMAIN s \cap DOMAIN hap \subseteq Copied
        BY <2>1, StatusShows, HapFields
    <2>4. "filter_status" \in DOMAIN s => hap["filter_status"] = s["filter_status"]
        <3>1. /\ ~Unbelievable(s, "filter_status")
              /\ ~Pegged("filter_status", s["filter_status"], hap["filter_status"])
            BY ScaleFields DEF Unbelievable, Pegged, SensorReadings
        <3>2. "filter_status" \in Copied
            BY HapFields
        <3> HIDE DEF s
        <3> QED  BY <2>2, <3>1, <3>2
    <2>5. "fault_level" \in DOMAIN s => (s["fault_level"][1] # 0 <=> s["fault_level"] # <<0>>)
        <3>1. Val("fault_level", values) # <<>> =>
                (Val("fault_level", values)[1] # 0 <=> Val("fault_level", values) # <<0>>)
            BY DEF Val, Meant, Meaning, Reads
        <3> QED  BY <3>1, StatusShows, HapFields
    <2> HIDE DEF s, card
    <2>6. \A b \in BOOLEAN : <<Bit(b)>> = <<1>> <=> b
        BY DEF Bit
    <2>7. {"fault_level", "filter_status"} \subseteq DOMAIN s =>
            ((hap.status_fault = <<1>> \/ hap.filter_status = <<1>>)
                      <=> card.needs_attention = <<1>>)
        BY <1>1, <2>2, <2>4, <2>5, <2>6
    <2> QED  BY <2>1, <2>2, <2>3, <2>7 DEF Mirrored
<1> QED  BY <1>1, <1>2, <1>3 DEF ViewsAgree

\* Whoever looks sees one device: whatever bytes the unit held or holds, in
\* whatever order polls, lost batches, writes, scrapes and changes came, the
\* status, the card, the gauges and HomeKit show the same (ui_view.go:62-260,
\* metrics.go:185-330, sync.go:40-160).
THEOREM ViewsAlwaysAgree == ReadingsSpec => []ViewsAgree
<1>1. ReadingsSpec => []Shown
    BY ShownInit, ShownNext, PTL DEF ReadingsSpec
<1> QED  BY <1>1, ShownAgrees, PTL

-----------------------------------------------------------------------------
(* The wire.                                                               *)

-----------------------------------------------------------------------------
(* Recursion and byte strings.                                             *)

\* A set of numbers has a least one.
LEMMA Least ==
    ASSUME NEW T, T \subseteq Nat, T # {}
    PROVE  \E m \in T : \A n \in T : m <= n
<1> DEFINE R == OpToRel(<, Nat)
<1>1. IsWellFoundedOn(R, Nat)
    BY NatLessThanWellFounded
<1>2. \A x, y \in Nat : <<x, y>> \in R <=> x < y
    BY DEF OpToRel
<1> HIDE DEF R
<1>3. PICK m \in T : \A n \in T : ~ (<<n, m>> \in R)
    BY <1>1, WFMin, Zenon
<1>4. m \in Nat /\ \A n \in T : n \in Nat
    OBVIOUS
<1>5. ASSUME NEW n \in T  PROVE m <= n
    <2>1. ~ (n < m)
        BY <1>2, <1>3, <1>4
    <2> QED  BY <2>1, <1>4
<1> QED  BY <1>5

\* Induction on the numbers, with a set in the place of a predicate.
LEMMA Induct ==
    ASSUME NEW T, 0 \in T, \A n \in Nat : n \in T => n + 1 \in T
    PROVE  Nat \subseteq T
<1> DEFINE U == Nat \ T
<1> SUFFICES ASSUME U # {}  PROVE FALSE
    OBVIOUS
<1>1. PICK m \in U : \A n \in U : m <= n
    BY Least
<1>2. m # 0 /\ m \in Nat
    OBVIOUS
<1>3. m - 1 \in Nat /\ m - 1 \notin U
    BY <1>1, <1>2
<1>4. m - 1 \in T
    BY <1>3
<1>5. (m - 1) + 1 \in T
    BY <1>3, <1>4
<1> QED  BY <1>2, <1>5

\* What holds at 0 and is handed on holds up to n.
LEMMA HandedOn ==
    ASSUME NEW n \in Nat, NEW S, NEW f, f[0] \in S,
           \A i \in 1 .. n : f[i - 1] \in S => f[i] \in S
    PROVE  \A i \in 0 .. n : f[i] \in S
<1> DEFINE T == {m \in Nat : m \in 0 .. n => f[m] \in S}
<1>1. 0 \in T
    OBVIOUS
<1>2. ASSUME NEW m \in Nat, m \in T
      PROVE  m + 1 \in T
    <2> SUFFICES ASSUME m + 1 \in 0 .. n
                 PROVE  f[m + 1] \in S
        OBVIOUS
    <2> DEFINE i == m + 1
    <2>1. i \in 1 .. n /\ i - 1 = m /\ m \in 0 .. n
        OBVIOUS
    <2>2. f[m] \in S
        BY <1>2, <2>1
    <2> HIDE DEF i
    <2>3. f[i - 1] \in S
        BY <2>1, <2>2
    <2>4. f[i] \in S
        BY <2>1, <2>3
    <2> QED  BY <2>4 DEF i
<1>3. Nat \subseteq T
    BY <1>1, <1>2, Induct
<1> QED  BY <1>3

\* A recursion over 0 .. n defines a function.
Steps(step, n, S) == \A i \in 1 .. n, x \in S : step[i][x] \in S

\* g is the function of the recursion.
Runs(g, a, step, n, S) == /\ g \in [0 .. n -> S]
                          /\ g[0] = a
                          /\ \A i \in 1 .. n : g[i] = step[i][g[i - 1]]

\* There is one.
LEMMA Recursion ==
    ASSUME NEW S, NEW a \in S, NEW n \in Nat, NEW step, Steps(step, n, S)
    PROVE  \E g : Runs(g, a, step, n, S)
<1> USE DEF Steps, Runs
<1> DEFINE T == {m \in Nat : m \in 0 .. n => \E g : Runs(g, a, step, m, S)}
<1>1. 0 \in T
    <2> DEFINE g == [k \in 0 .. 0 |-> a]
    <2>1. Runs(g, a, step, 0, S)
        OBVIOUS
    <2> QED  BY <2>1
<1>2. ASSUME NEW m \in Nat, m \in T
      PROVE  m + 1 \in T
    <2> SUFFICES ASSUME m + 1 \in 0 .. n
                 PROVE  \E g : Runs(g, a, step, m + 1, S)
        OBVIOUS
    <2>1. PICK g : Runs(g, a, step, m, S)
        BY <1>2
    <2> DEFINE h == [k \in 0 .. m + 1 |-> IF k = m + 1 THEN step[m + 1][g[m]] ELSE g[k]]
    <2>2. g[m] \in S
        BY <2>1
    <2>3. m + 1 \in 1 .. n
        OBVIOUS
    <2>4. step[m + 1][g[m]] \in S
        BY <2>2, <2>3
    <2>5. h \in [0 .. m + 1 -> S] /\ h[0] = a
        BY <2>1, <2>4
    <2>6. ASSUME NEW i \in 1 .. m + 1
          PROVE  h[i] = step[i][h[i - 1]]
        <3>1. CASE i = m + 1
            <4>1. h[m] = g[m] /\ h[m + 1] = step[m + 1][g[m]] /\ i - 1 = m
                BY <3>1
            <4> HIDE DEF h
            <4> QED  BY <3>1, <4>1
        <3>2. CASE i # m + 1
            <4>1. i \in 1 .. m /\ i - 1 \in 0 .. m
                BY <3>2
            <4>2. h[i] = g[i] /\ h[i - 1] = g[i - 1]
                BY <4>1
            <4> QED  BY <4>1, <4>2, <2>1
        <3> QED  BY <3>1, <3>2
    <2>7. Runs(h, a, step, m + 1, S)
        BY <2>5, <2>6
    <2> QED  BY <2>7
<1>3. Nat \subseteq T
    <2> HIDE DEF T
    <2> QED  BY <1>1, <1>2, Induct
<1>4. \E g : Runs(g, a, step, n, S)
    BY <1>3
<1> QED  BY <1>4

\* The numbers of 16 bits.
Word == {x \in Nat : x < 65536}

\* A sum in 16 bits is one.
LEMMA ModWord == \A y \in Nat : y % 65536 \in Word
<1> SUFFICES ASSUME NEW y \in Nat  PROVE y % 65536 \in Word
    OBVIOUS
<1>1. y % 65536 \in Nat /\ y % 65536 < 65536
    OBVIOUS
<1> QED  BY <1>1 DEF Word

\* The running sums of a byte string.
Sums(sum, bytes) ==
    /\ sum[0] = 0
    /\ \A i \in 1 .. Len(bytes) : sum[i] = (sum[i - 1] + bytes[i]) % 65536
    /\ \A i \in 0 .. Len(bytes) : sum[i] \in Word
    /\ Checksum(bytes) = sum[Len(bytes)]

\* Checksum: the sum that closes a frame is a running sum's last.
LEMMA ChecksumSum ==
    ASSUME NEW bytes \in Seq(Byte)
    PROVE  \E sum : Sums(sum, bytes)
<1> DEFINE n == Len(bytes)
<1>1. n \in Nat /\ \A i \in 1 .. n : bytes[i] \in Nat
    <2>1. Len(bytes) \in Nat
        OBVIOUS
    <2>2. \A i \in 1 .. Len(bytes) : bytes[i] \in Byte
        BY ElementOfSeq
    <2>3. \A x \in Byte : x \in Nat
        BY DEF Byte
    <2> QED  BY <2>1, <2>2, <2>3
<1> HIDE DEF n
<1> DEFINE step == [i \in 1 .. n |-> [x \in Word |-> (x + bytes[i]) % 65536]]
<1>2. ASSUME NEW i \in 1 .. n, NEW x \in Word
      PROVE  (x + bytes[i]) % 65536 \in Word
    <2>1. x + bytes[i] \in Nat
        BY <1>1 DEF Word
    <2> QED  BY <2>1, ModWord
<1>3. Steps(step, n, Word)
    BY <1>2 DEF Steps
<1>4. 0 \in Word
    BY DEF Word
<1>5. PICK g : Runs(g, 0, step, n, Word)
    <2> HIDE DEF step
    <2> QED  BY <1>1, <1>3, <1>4, Recursion
<1>6. ASSUME NEW i \in 1 .. n
      PROVE  g[i] = (g[i - 1] + bytes[i]) % 65536
    <2>1. g[i - 1] \in Word
        BY <1>1, <1>5 DEF Runs
    <2>2. step[i][g[i - 1]] = (g[i - 1] + bytes[i]) % 65536
        BY <2>1
    <2> HIDE DEF step
    <2> QED  BY <1>5, <2>2 DEF Runs
<1> DEFINE Is(f) == f = [i \in 0 .. Len(bytes) |-> IF i = 0 THEN 0
                                          ELSE (f[i - 1] + bytes[i]) % 65536]
           sum == CHOOSE f : Is(f)
<1>7. Is(g)
    BY <1>5, <1>6 DEF Runs, n
<1>8. Is(sum)
    <2> HIDE DEF Is
    <2> QED  BY <1>7
<1>9. Checksum(bytes) = sum[n]
    BY DEF Checksum, n
<1>10. sum[0] = 0 /\ \A i \in 1 .. n : sum[i] = (sum[i - 1] + bytes[i]) % 65536
    <2> HIDE DEF sum
    <2> QED  BY <1>1, <1>8 DEF n
<1> HIDE DEF sum
<1>11. \A i \in 0 .. n : sum[i] \in Word
    <2>1. \A i \in 1 .. n : sum[i - 1] \in Word => sum[i] \in Word
        BY <1>10, <1>2
    <2>2. sum[0] \in Word
        BY <1>10, <1>4
    <2> QED  BY <1>1, <2>1, <2>2, HandedOn
<1> QED  BY <1>9, <1>10, <1>11 DEF Sums, n

\* After its first a elements s goes on with t.
Bears(s, a, t) == \A i \in 1 .. Len(t) : s[a + i] = t[i]

\* What goes on with two strings goes on with the first and then the second.
LEMMA Split ==
    ASSUME NEW S, NEW s, NEW a \in Nat, NEW t \in Seq(S), NEW u \in Seq(S),
           Bears(s, a, t \o u)
    PROVE  Bears(s, a, t) /\ Bears(s, a + Len(t), u)
<1>1. Len(t) \in Nat /\ Len(u) \in Nat
    OBVIOUS
<1>2. /\ Len(t \o u) = Len(t) + Len(u)
      /\ \A i \in 1 .. Len(t) + Len(u) : (t \o u)[i] =
             IF i <= Len(t) THEN t[i] ELSE u[i - Len(t)]
    BY ConcatProperties
<1>3. ASSUME NEW i \in 1 .. Len(t)  PROVE s[a + i] = t[i]
    BY <1>1, <1>2 DEF Bears
<1>4. ASSUME NEW i \in 1 .. Len(u)  PROVE s[a + Len(t) + i] = u[i]
    <2>1. /\ Len(t) + i \in 1 .. Len(t) + Len(u)
          /\ ~ (Len(t) + i <= Len(t)) /\ (Len(t) + i) - Len(t) = i
          /\ a + (Len(t) + i) = a + Len(t) + i
        BY <1>1
    <2> QED  BY <2>1, <1>2 DEF Bears
<1> QED  BY <1>3, <1>4 DEF Bears

\* What goes on with a string has it as its subsequence.
LEMMA Cut ==
    ASSUME NEW S, NEW s, NEW t \in Seq(S), NEW a \in Nat, Bears(s, a, t)
    PROVE  SubSeq(s, a + 1, a + Len(t)) = t
<1>1. Len(t) \in Nat /\ \A i \in 1 .. Len(t) : t[i] \in S
    BY ElementOfSeq
<1>2. ASSUME NEW i \in a + 1 .. a + Len(t)  PROVE s[i] \in S
    <2>1. i - a \in 1 .. Len(t) /\ a + (i - a) = i
        BY <1>1
    <2> QED  BY <2>1, <1>1 DEF Bears
<1>3. /\ SubSeq(s, a + 1, a + Len(t)) \in Seq(S)
      /\ Len(SubSeq(s, a + 1, a + Len(t))) =
           IF a + 1 <= a + Len(t) THEN a + Len(t) - (a + 1) + 1 ELSE 0
      /\ \A i \in 1 .. a + Len(t) - (a + 1) + 1 :
           SubSeq(s, a + 1, a + Len(t))[i] = s[a + 1 + i - 1]
    <2> DEFINE m == a + 1
               n == a + Len(t)
    <2>1. m \in Int /\ n \in Int
        BY <1>1
    <2>2. \A i \in m .. n : s[i] \in S
        BY <1>2
    <2> HIDE DEF m, n
    <2>3. /\ SubSeq(s, m, n) \in Seq(S)
          /\ Len(SubSeq(s, m, n)) = IF m <= n THEN n - m + 1 ELSE 0
          /\ \A i \in 1 .. n - m + 1 : SubSeq(s, m, n)[i] = s[m + i - 1]
        BY <2>1, <2>2, SubSeqProperties
    <2> QED  BY <2>3 DEF m, n
<1>4. Len(SubSeq(s, a + 1, a + Len(t))) = Len(t)
    BY <1>1, <1>3
<1>5. \A i \in 1 .. Len(t) : SubSeq(s, a + 1, a + Len(t))[i] = t[i]
    <2>1. a + Len(t) - (a + 1) + 1 = Len(t)
        BY <1>1
    <2>2. \A i \in 1 .. Len(t) : a + 1 + i - 1 = a + i
        BY <1>1
    <2> QED  BY <1>3, <2>1, <2>2 DEF Bears
<1> QED  BY <1>3, <1>4, <1>5, SeqEqual

\* Strings joined.
LEMMA Joined ==
    ASSUME NEW S, NEW s \in Seq(S), NEW t \in Seq(S)
    PROVE  s \o t \in Seq(S) /\ Len(s \o t) = Len(s) + Len(t)
           /\ Len(s) \in Nat /\ Len(t) \in Nat
BY ConcatProperties

\* Strings of one and two bytes.
LEMMA Single ==
    ASSUME NEW S, NEW x \in S, NEW y \in S
    PROVE  /\ <<x>> \in Seq(S) /\ Len(<<x>>) = 1
           /\ <<x, y>> \in Seq(S) /\ Len(<<x, y>>) = 2
           /\ \A s : \A a \in Nat : Bears(s, a, <<x>>) => s[a + 1] = x
           /\ \A s : \A a \in Nat : Bears(s, a, <<x, y>>) => s[a + 1] = x /\ s[a + 2] = y
<1>1. /\ <<x>> \in Seq(S) /\ Len(<<x>>) = 1
      /\ <<x, y>> \in Seq(S) /\ Len(<<x, y>>) = 2
    OBVIOUS
<1> QED  BY <1>1 DEF Bears

\* The part of a frame that is summed up.
Body(id, pw, fn, data) == <<2, 16>> \o id \o <<Len(pw)>> \o pw \o <<fn>> \o data

\* EncodeRequest: where in the body its parts stand.
LEMMA BodyBytes ==
    ASSUME NEW id \in Seq(Byte), Len(id) = 16, NEW pw \in Seq(Byte), Len(pw) \in Byte,
           NEW fn \in Byte, NEW data \in Seq(Byte)
    PROVE  /\ Body(id, pw, fn, data) \in Seq(Byte)
           /\ Len(Body(id, pw, fn, data)) = 20 + Len(pw) + Len(data)
           /\ \A raw : \A a \in Nat : Bears(raw, a, Body(id, pw, fn, data)) =>
                /\ raw[a + 1] = 2 /\ raw[a + 2] = 16
                /\ Bears(raw, a + 2, id)
                /\ raw[a + 19] = Len(pw)
                /\ Bears(raw, a + 19, pw)
                /\ raw[a + 20 + Len(pw)] = fn
                /\ Bears(raw, a + 20 + Len(pw), data)
<1> DEFINE s0 == <<2, 16>>
           s1 == s0 \o id
           l == <<Len(pw)>>
           s2 == s1 \o l
           s3 == s2 \o pw
           f == <<fn>>
           s4 == s3 \o f
           body == s4 \o data
<1>1. Len(pw) \in Nat /\ Len(data) \in Nat /\ 2 \in Byte /\ 16 \in Byte
    BY DEF Byte
<1>2. /\ s0 \in Seq(Byte) /\ Len(s0) = 2
      /\ \A s : \A a \in Nat : Bears(s, a, s0) => s[a + 1] = 2 /\ s[a + 2] = 16
    BY DEF Bears, Byte
<1>3. /\ l \in Seq(Byte) /\ Len(l) = 1
      /\ \A s : \A a \in Nat : Bears(s, a, l) => s[a + 1] = Len(pw)
    BY Single
<1>4. /\ f \in Seq(Byte) /\ Len(f) = 1
      /\ \A s : \A a \in Nat : Bears(s, a, f) => s[a + 1] = fn
    BY Single
<1> HIDE DEF s0, l, f
<1>5. s1 \in Seq(Byte) /\ Len(s1) = 18
    <2>1. s1 \in Seq(Byte) /\ Len(s1) = Len(s0) + Len(id)
        BY <1>2, Joined
    <2> QED  BY <1>2, <2>1
<1>6. s2 \in Seq(Byte) /\ Len(s2) = 19
    <2> HIDE DEF s1
    <2>1. s2 \in Seq(Byte) /\ Len(s2) = Len(s1) + Len(l)
        BY <1>3, <1>5, Joined
    <2> QED  BY <1>3, <1>5, <2>1
<1>7. s3 \in Seq(Byte) /\ Len(s3) = 19 + Len(pw)
    <2> HIDE DEF s2
    <2> QED  BY <1>6, Joined
<1>8. s4 \in Seq(Byte) /\ Len(s4) = 20 + Len(pw)
    <2> HIDE DEF s3
    <2>1. s4 \in Seq(Byte) /\ Len(s4) = Len(s3) + Len(f)
        BY <1>4, <1>7, Joined
    <2> HIDE DEF s4
    <2> QED  BY <1>1, <1>4, <1>7, <2>1
<1>9. body \in Seq(Byte) /\ Len(body) = 20 + Len(pw) + Len(data)
    <2> HIDE DEF s4
    <2> QED  BY <1>8, Joined
<1>10. ASSUME NEW raw, NEW a \in Nat, Bears(raw, a, body)
      PROVE  /\ raw[a + 1] = 2 /\ raw[a + 2] = 16
             /\ Bears(raw, a + 2, id)
             /\ raw[a + 19] = Len(pw)
             /\ Bears(raw, a + 19, pw)
             /\ raw[a + 20 + Len(pw)] = fn
             /\ Bears(raw, a + 20 + Len(pw), data)
    <2>1. Bears(raw, a, s4) /\ Bears(raw, a + Len(s4), data)
        <3> HIDE DEF s4
        <3> QED  BY <1>8, <1>10, Split
    <2>2. Bears(raw, a, s3) /\ Bears(raw, a + Len(s3), f)
        <3> HIDE DEF s3
        <3> QED  BY <1>4, <1>7, <2>1, Split
    <2>3. Bears(raw, a, s2) /\ Bears(raw, a + Len(s2), pw)
        <3> HIDE DEF s2
        <3> QED  BY <1>6, <2>2, Split
    <2>4. Bears(raw, a, s1) /\ Bears(raw, a + Len(s1), l)
        <3> HIDE DEF s1
        <3> QED  BY <1>3, <1>5, <2>3, Split
    <2>5. Bears(raw, a, s0) /\ Bears(raw, a + Len(s0), id)
        BY <1>2, <2>4, Split
    <2> HIDE DEF s1, s2, s3, s4
    <2>6. /\ a + 18 \in Nat /\ a + 18 + 1 = a + 19
          /\ a + (19 + Len(pw)) \in Nat
          /\ a + (19 + Len(pw)) + 1 = a + 20 + Len(pw)
          /\ a + (20 + Len(pw)) = a + 20 + Len(pw)
        BY <1>1
    <2>7. raw[a + 18 + 1] = Len(pw)
        BY <2>4, <2>6, <1>3, <1>5
    <2>8. raw[a + (19 + Len(pw)) + 1] = fn
        BY <2>2, <2>6, <1>4, <1>7
    <2>9. raw[a + 1] = 2 /\ raw[a + 2] = 16 /\ Bears(raw, a + 2, id)
        BY <1>2, <2>5
    <2>10. Bears(raw, a + 19, pw)
        BY <1>6, <2>3
    <2>11. Bears(raw, a + 20 + Len(pw), data)
        BY <1>8, <2>1, <2>6
    <2> QED
        BY <2>6, <2>7, <2>8, <2>9, <2>10, <2>11
<1>11. body = Body(id, pw, fn, data)
    BY DEF Body, s0, l, f
<1> HIDE DEF body
<1> QED  BY <1>9, <1>10, <1>11

\* Different sums stay different with the same byte added.
LEMMA SumsApart ==
    ASSUME NEW x \in Word, NEW y \in Word, x # y, NEW b \in Byte
    PROVE  (x + b) % 65536 # (y + b) % 65536
<1>1. x \in Nat /\ x < 65536 /\ y \in Nat /\ y < 65536 /\ b \in Nat /\ b < 256
    BY DEF Word, Byte
<1>2. \A n \in Nat : n < 65792 => n % 65536 = IF n < 65536 THEN n ELSE n - 65536
    OBVIOUS
<1> DEFINE p == x + b
           q == y + b
<1>3. p \in Nat /\ q \in Nat /\ p < 65792 /\ q < 65792 /\ p # q
    BY <1>1
<1>4. p >= 65536 /\ q < 65536 => p - 65536 # q
    BY <1>1
<1>5. q >= 65536 /\ p < 65536 => q - 65536 # p
    BY <1>1
<1> HIDE DEF p, q
<1>6. p % 65536 = IF p < 65536 THEN p ELSE p - 65536
    BY <1>2, <1>3
<1>7. q % 65536 = IF q < 65536 THEN q ELSE q - 65536
    BY <1>2, <1>3
<1>8. p % 65536 # q % 65536
    BY <1>3, <1>4, <1>5, <1>6, <1>7
<1> QED  BY <1>8 DEF p, q

\* t is s but for the byte at i.
OneOff(s, t, i) ==
    /\ Len(t) = Len(s)
    /\ i \in 1 .. Len(s)
    /\ t[i] # s[i]
    /\ \A j \in 1 .. Len(s) : j # i => t[j] = s[j]

\* Any other byte in the place of one changes the sum.
LEMMA ChecksumTells ==
    ASSUME NEW s \in Seq(Byte), NEW t \in Seq(Byte), NEW i, OneOff(s, t, i)
    PROVE  Checksum(t) # Checksum(s)
<1>1. /\ Len(t) = Len(s) /\ i \in 1 .. Len(s) /\ t[i] # s[i]
      /\ \A j \in 1 .. Len(s) : j # i => t[j] = s[j]
    BY DEF OneOff
<1>2. /\ Len(s) \in Nat
      /\ \A j \in 1 .. Len(s) : s[j] \in Byte /\ t[j] \in Byte
    BY <1>1, ElementOfSeq
<1>3. PICK f : Sums(f, s)
    BY ChecksumSum
<1>4. PICK g : Sums(g, t)
    BY ChecksumSum
<1> DEFINE T == {m \in Nat : m \in 0 .. Len(s) => (m < i <=> g[m] = f[m])}
<1>5. 0 \in T
    BY <1>1, <1>3, <1>4 DEF Sums
<1>6. ASSUME NEW m \in Nat, m \in T
      PROVE  m + 1 \in T
    <2> SUFFICES ASSUME m + 1 \in 0 .. Len(s)
                 PROVE  m + 1 < i <=> g[m + 1] = f[m + 1]
        OBVIOUS
    <2>1. m \in 0 .. Len(s) /\ m + 1 \in 1 .. Len(s) /\ (m + 1) - 1 = m
        BY <1>2
    <2>2. m < i <=> g[m] = f[m]
        BY <1>6, <2>1
    <2>3. /\ f[m] \in Word /\ g[m] \in Word
          /\ f[m + 1] = (f[m] + s[m + 1]) % 65536
          /\ g[m + 1] = (g[m] + t[m + 1]) % 65536
        BY <1>1, <1>3, <1>4, <2>1 DEF Sums
    <2>4. s[m + 1] \in Byte /\ t[m + 1] \in Byte
        BY <1>2, <2>1
    <2>5. CASE m + 1 < i
        BY <1>1, <2>1, <2>2, <2>3, <2>5
    <2>6. CASE m + 1 = i
        <3>1. f[m] = g[m] /\ s[m + 1] # t[m + 1]
            BY <1>1, <2>2, <2>6
        <3> DEFINE x == s[m + 1]
                   y == t[m + 1]
                   b == f[m]
        <3>2. x \in Nat /\ y \in Nat /\ b \in Nat /\ x < 256 /\ y < 256 /\ b < 65536
            <4>1. \A z \in Byte : z \in Nat /\ z < 256
                BY DEF Byte
            <4>2. \A z \in Word : z \in Nat /\ z < 65536
                BY DEF Word
            <4> QED  BY <2>3, <2>4, <4>1, <4>2
        <3> HIDE DEF x, y, b
        <3>3. \A n \in Nat : n < 65792 => n % 65536 = IF n < 65536 THEN n ELSE n - 65536
            OBVIOUS
        <3>4. (b + x) % 65536 = IF b + x < 65536 THEN b + x ELSE b + x - 65536
            BY <3>2, <3>3
        <3>5. (b + y) % 65536 = IF b + y < 65536 THEN b + y ELSE b + y - 65536
            BY <3>2, <3>3
        <3>6. x # y => (b + x) % 65536 # (b + y) % 65536
            BY <3>2, <3>4, <3>5
        <3> QED  BY <2>3, <2>6, <3>1, <3>6 DEF x, y, b
    <2>7. CASE i < m + 1
        <3>1. f[m] # g[m] /\ s[m + 1] = t[m + 1]
            BY <1>1, <2>1, <2>2, <2>7
        <3>2. (f[m] + s[m + 1]) % 65536 # (g[m] + s[m + 1]) % 65536
            BY <2>3, <2>4, <3>1, SumsApart
        <3>3. g[m + 1] # f[m + 1]
            BY <2>3, <3>1, <3>2
        <3>4. ~ (m + 1 < i)
            BY <1>1, <2>1, <2>7
        <3> QED  BY <3>3, <3>4
    <2> QED  BY <1>1, <2>1, <2>5, <2>6, <2>7
<1>7. Nat \subseteq T
    <2> HIDE DEF T
    <2> QED  BY <1>5, <1>6, Induct
<1>8. Len(s) \in T
    BY <1>2, <1>7
<1>9. ~ (g[Len(s)] = f[Len(s)])
    BY <1>1, <1>2, <1>8
<1> QED  BY <1>1, <1>3, <1>4, <1>9 DEF Sums

-----------------------------------------------------------------------------
(* Frames.                                                                 *)

\* EncodeRequest: the two bytes of the sum are the sum.
LEMMA EndBytes ==
    ASSUME NEW c \in Word
    PROVE  /\ LE16(c) \in Seq(Byte) /\ Len(LE16(c)) = 2
           /\ Num16(LE16(c)) = c
<1>1. c \in Nat /\ c < 65536
    BY DEF Word
<1> DEFINE lo == c % 256
           hi == c \div 256
<1>2. lo \in Nat /\ lo < 256 /\ hi \in Nat /\ hi < 256 /\ lo + 256 * hi = c
    BY <1>1
<1>3. LE16(c) = <<lo, hi>>
    BY DEF LE16
<1> HIDE DEF lo, hi
<1>4. lo \in Byte /\ hi \in Byte
    BY <1>2 DEF Byte
<1>5. <<lo, hi>> \in Seq(Byte) /\ Len(<<lo, hi>>) = 2
    BY <1>4, Single
<1>6. Num16(<<lo, hi>>) = c
    BY <1>2 DEF Num16
<1> QED  BY <1>3, <1>5, <1>6

\* Checksum: a sum fits its two bytes.
LEMMA ChecksumWord ==
    ASSUME NEW s \in Seq(Byte)
    PROVE  Checksum(s) \in Word
<1>1. PICK sum : Sums(sum, s)
    BY ChecksumSum
<1>2. Len(s) \in 0 .. Len(s)
    OBVIOUS
<1> QED  BY <1>1, <1>2 DEF Sums

\* What can be sent in a frame.
Sendable(id, pw, fn, data) ==
    /\ id \in Seq(Byte) /\ Len(id) = 16
    /\ pw \in Seq(Byte) /\ Len(pw) <= 8
    /\ fn \in Byte
    /\ data \in Seq(Byte)

\* EncodeRequest: a frame's parts in their places.
LEMMA RawBytes ==
    ASSUME NEW id, NEW pw, NEW fn, NEW data, Sendable(id, pw, fn, data),
           NEW raw, raw = EncodeRequest(id, pw, fn, data)
    PROVE  LET body == Body(id, pw, fn, data) IN
           /\ raw \in Seq(Byte) /\ Len(raw) = 24 + Len(pw) + Len(data)
           /\ Len(pw) \in Nat /\ Len(pw) \in Byte /\ Len(data) \in Nat
           /\ body \in Seq(Byte) /\ Len(body) = 20 + Len(pw) + Len(data)
           /\ raw[1] = 253 /\ raw[2] = 253
           /\ Bears(raw, 2, body)
           /\ Bears(raw, 22 + Len(pw) + Len(data), LE16(Checksum(body)))
<1> DEFINE body == Body(id, pw, fn, data)
           end == LE16(Checksum(body))
           m == <<253, 253>>
           r == m \o body
<1>1. /\ id \in Seq(Byte) /\ Len(id) = 16 /\ pw \in Seq(Byte) /\ Len(pw) \in Nat
      /\ Len(pw) \in Byte /\ fn \in Byte /\ data \in Seq(Byte) /\ Len(data) \in Nat
    <2>1. /\ id \in Seq(Byte) /\ Len(id) = 16 /\ pw \in Seq(Byte) /\ Len(pw) <= 8
          /\ fn \in Byte /\ data \in Seq(Byte)
        BY DEF Sendable
    <2>2. Len(pw) \in Nat /\ Len(data) \in Nat
        BY <2>1
    <2>3. Len(pw) \in Byte
        <3>1. \A n \in Nat : n <= 8 => n \in Byte
            BY DEF Byte
        <3> QED  BY <2>1, <2>2, <3>1
    <2> QED  BY <2>1, <2>2, <2>3
<1>2. body \in Seq(Byte) /\ Len(body) = 20 + Len(pw) + Len(data)
    BY <1>1, BodyBytes
<1>3. raw = r \o end
    BY DEF EncodeRequest, Body
<1> HIDE DEF body
<1>4. end \in Seq(Byte) /\ Len(end) = 2
    BY <1>2, ChecksumWord, EndBytes
<1> HIDE DEF end
<1>5. m \in Seq(Byte) /\ Len(m) = 2
    BY DEF Byte
<1>6. \A s : \A a \in Nat : Bears(s, a, m) => s[a + 1] = 253 /\ s[a + 2] = 253
    BY DEF Bears
<1> HIDE DEF m
<1>7. r \in Seq(Byte) /\ Len(r) = 22 + Len(pw) + Len(data)
    <2>1. body \in Seq(Byte) /\ m \in Seq(Byte)
        BY <1>2, <1>5
    <2>2. r \in Seq(Byte) /\ Len(r) = Len(m) + Len(body)
        BY <2>1, Joined
    <2> HIDE DEF r
    <2> QED  BY <1>1, <1>2, <1>5, <2>2
<1>8. raw \in Seq(Byte) /\ Len(raw) = 24 + Len(pw) + Len(data)
    <2> HIDE DEF r
    <2>1. raw \in Seq(Byte) /\ Len(raw) = Len(r) + Len(end)
        BY <1>3, <1>4, <1>7, Joined
    <2> QED  BY <1>1, <1>4, <1>7, <2>1
<1>9. Bears(raw, 0, r \o end)
    <2>1. \A i \in 1 .. Len(raw) : raw[0 + i] = raw[i]
        OBVIOUS
    <2>2. Bears(raw, 0, raw)
        BY <2>1 DEF Bears
    <2> QED  BY <1>3, <2>2
<1>10. Bears(raw, 0, r) /\ Bears(raw, 0 + Len(r), end)
    <2> HIDE DEF r
    <2> QED  BY <1>4, <1>7, <1>9, Split
<1>11. Bears(raw, 0, m) /\ Bears(raw, 0 + Len(m), body)
    <2>1. body \in Seq(Byte) /\ m \in Seq(Byte) /\ 0 \in Nat
        BY <1>2, <1>5
    <2>2. Bears(raw, 0, m \o body)
        BY <1>10
    <2> QED  BY <2>1, <2>2, Split
<1>12. 0 + Len(m) = 2 /\ 0 + Len(r) = 22 + Len(pw) + Len(data) /\ 0 + 1 = 1 /\ 0 + 2 = 2
    <2> HIDE DEF r
    <2> QED  BY <1>1, <1>5, <1>7
<1>13. raw[1] = 253 /\ raw[2] = 253
    BY <1>11, <1>12, <1>6
<1> QED
    BY <1>1, <1>2, <1>8, <1>10, <1>11, <1>12, <1>13 DEF body, end

\* A frame's parts in their places.
LEMMA FrameReads ==
    ASSUME NEW id, NEW pw, NEW fn, NEW data, Sendable(id, pw, fn, data)
    PROVE  Frame(EncodeRequest(id, pw, fn, data)) =
             <<[id |-> id, password |-> pw, function |-> fn, data |-> data]>>
<1> DEFINE raw == EncodeRequest(id, pw, fn, data)
           body == Body(id, pw, fn, data)
           p == Len(pw)
           d == Len(data)
           end == LE16(Checksum(body))
<1>1. /\ raw \in Seq(Byte) /\ Len(raw) = 24 + p + d
      /\ p \in Nat /\ p \in Byte /\ d \in Nat
      /\ body \in Seq(Byte) /\ Len(body) = 20 + p + d
      /\ raw[1] = 253 /\ raw[2] = 253
      /\ Bears(raw, 2, body)
      /\ Bears(raw, 22 + p + d, end)
    BY RawBytes
<1>2. /\ id \in Seq(Byte) /\ Len(id) = 16 /\ pw \in Seq(Byte) /\ p <= 8
      /\ fn \in Byte /\ data \in Seq(Byte)
    BY DEF Sendable
<1>3. /\ raw[2 + 1] = 2 /\ raw[2 + 2] = 16
      /\ Bears(raw, 2 + 2, id)
      /\ raw[2 + 19] = p
      /\ Bears(raw, 2 + 19, pw)
      /\ raw[2 + 20 + p] = fn
      /\ Bears(raw, 2 + 20 + p, data)
    <2>1. Bears(raw, 2, body)
        BY <1>1
    <2>2. id \in Seq(Byte) /\ Len(id) = 16 /\ pw \in Seq(Byte) /\ Len(pw) \in Byte
          /\ fn \in Byte /\ data \in Seq(Byte)
        BY <1>1, <1>2
    <2>3. \A r : \A a \in Nat : Bears(r, a, Body(id, pw, fn, data)) =>
                /\ r[a + 1] = 2 /\ r[a + 2] = 16
                /\ Bears(r, a + 2, id)
                /\ r[a + 19] = Len(pw)
                /\ Bears(r, a + 19, pw)
                /\ r[a + 20 + Len(pw)] = fn
                /\ Bears(r, a + 20 + Len(pw), data)
        BY <2>2, BodyBytes
    <2>4. 2 \in Nat
        OBVIOUS
    <2> HIDE DEF raw
    <2> QED  BY <2>1, <2>3, <2>4
<1>4. end \in Seq(Byte) /\ Len(end) = 2 /\ Num16(end) = Checksum(body)
    BY <1>1, ChecksumWord, EndBytes
<1> HIDE DEF raw, body, p, d, end
<1>5. raw[3] = 2 /\ raw[4] = 16 /\ raw[21] = p /\ raw[22 + p] = fn
    <2>1. 2 + 20 + p = 22 + p
        BY <1>1
    <2> QED  BY <1>3, <2>1
<1>6. SubSeq(raw, 1, 4) = <<253, 253, 2, 16>>
    <2> DEFINE h == <<253, 253, 2, 16>>
    <2>1. h \in Seq(Byte) /\ Len(h) = 4
        BY DEF Byte
    <2>2. ASSUME NEW i \in 1 .. Len(h)  PROVE raw[0 + i] = h[i]
        <3>1. /\ h[1] = 253 /\ h[2] = 253 /\ h[3] = 2 /\ h[4] = 16
              /\ 0 + i = i
            OBVIOUS
        <3>2. i = 1 \/ i = 2 \/ i = 3 \/ i = 4
            BY <2>1
        <3> HIDE DEF h
        <3> QED  BY <1>1, <1>5, <3>1, <3>2
    <2>3. Bears(raw, 0, h)
        BY <2>2 DEF Bears
    <2> HIDE DEF h
    <2>4. SubSeq(raw, 0 + 1, 0 + Len(h)) = h
        BY <2>1, <2>3, Cut
    <2>5. 0 + 1 = 1 /\ 0 + Len(h) = 4
        BY <2>1
    <2> QED  BY <2>4, <2>5 DEF h
<1>7. SubSeq(raw, 5, 20) = id
    <2>1. 2 + 2 \in Nat /\ 2 + 2 + 1 = 5 /\ 2 + 2 + Len(id) = 20
        BY <1>2
    <2>2. SubSeq(raw, 2 + 2 + 1, 2 + 2 + Len(id)) = id
        BY <1>2, <1>3, <2>1, Cut
    <2> QED  BY <2>1, <2>2
<1>8. SubSeq(raw, 22, 21 + p) = pw
    <2>1. SubSeq(raw, 2 + 19 + 1, 2 + 19 + Len(pw)) = pw
        BY <1>2, <1>3, Cut
    <2> QED  BY <1>1, <2>1 DEF p
<1>9. SubSeq(raw, 23 + p, 22 + p + d) = data
    <2>1. 2 + 20 + p \in Nat
        BY <1>1
    <2>2. SubSeq(raw, 2 + 20 + p + 1, 2 + 20 + p + Len(data)) = data
        BY <1>2, <1>3, <2>1, Cut
    <2>3. 2 + 20 + p + 1 = 23 + p /\ 2 + 20 + p + d = 22 + p + d
        BY <1>1
    <2> QED  BY <2>2, <2>3 DEF d
<1>10. SubSeq(raw, 3, 22 + p + d) = body
    <2>1. SubSeq(raw, 2 + 1, 2 + Len(body)) = body
        BY <1>1, Cut
    <2>2. 2 + 1 = 3 /\ 2 + Len(body) = 22 + p + d
        BY <1>1
    <2> QED  BY <2>1, <2>2
<1>11. SubSeq(raw, 23 + p + d, 24 + p + d) = end
    <2>1. 22 + p + d \in Nat
        BY <1>1
    <2>2. SubSeq(raw, 22 + p + d + 1, 22 + p + d + Len(end)) = end
        BY <1>1, <1>4, <2>1, Cut
    <2>3. 22 + p + d + 1 = 23 + p + d /\ 22 + p + d + Len(end) = 24 + p + d
        BY <1>1, <1>4
    <2> QED  BY <2>2, <2>3
<1>12. /\ ~ (Len(raw) < 24)
       /\ ~ (raw[21] > 8)
       /\ ~ ((22 + raw[21]) + 2 > Len(raw))
       /\ Len(raw) - 2 = 22 + p + d /\ Len(raw) - 1 = 23 + p + d
       /\ (22 + raw[21]) - 1 = 21 + p /\ (22 + raw[21]) + 1 = 23 + p
       /\ 22 + raw[21] = 22 + p
    BY <1>1, <1>2, <1>5
<1>13. Frame(raw) = <<[id |-> id, password |-> pw, function |-> fn, data |-> data]>>
    <2> DEFINE q == 22 + raw[21]
    <2>1. /\ SubSeq(raw, 5, 20) = id
          /\ SubSeq(raw, 22, q - 1) = pw
          /\ raw[q] = fn
          /\ SubSeq(raw, q + 1, Len(raw) - 2) = data
        BY <1>5, <1>7, <1>8, <1>9, <1>12
    <2>2. Checksum(SubSeq(raw, 3, Len(raw) - 2)) = Num16(SubSeq(raw, Len(raw) - 1, Len(raw)))
        BY <1>1, <1>4, <1>10, <1>11, <1>12
    <2>3. ~ (q + 2 > Len(raw))
        BY <1>12
    <2> QED  BY <1>6, <1>12, <2>1, <2>2, <2>3 DEF Frame
<1> QED  BY <1>13 DEF raw

\* DecodeResponse, DecodeDiscoveryResponse: a frame with any one byte changed
\* is not believed, whatever is sent in it (frame.go:142-198, 215-262).
THEOREM FrameTells ==
    ASSUME NEW id, NEW pw, NEW fn, NEW data, Sendable(id, pw, fn, data),
           NEW raw, raw = EncodeRequest(id, pw, fn, data),
           NEW t \in Seq(Byte), NEW i, OneOff(raw, t, i)
    PROVE  Frame(t) = <<>>
<1> DEFINE body == Body(id, pw, fn, data)
           p == Len(pw)
           d == Len(data)
           end == LE16(Checksum(body))
           n == Len(raw)
<1>1. /\ raw \in Seq(Byte) /\ n = 24 + p + d
      /\ p \in Nat /\ d \in Nat
      /\ body \in Seq(Byte) /\ Len(body) = 20 + p + d
      /\ raw[1] = 253 /\ raw[2] = 253
      /\ Bears(raw, 2, body)
      /\ Bears(raw, 22 + p + d, end)
    BY RawBytes
<1>2. end \in Seq(Byte) /\ Len(end) = 2 /\ Num16(end) = Checksum(body)
    BY <1>1, ChecksumWord, EndBytes
<1> HIDE DEF body, p, d, end
<1>3. /\ Len(t) = n /\ i \in 1 .. n /\ t[i] # raw[i]
     /\ \A j \in 1 .. n : j # i => t[j] = raw[j]
    BY DEF OneOff
<1> DEFINE sent == SubSeq(t, 3, n - 2)
           sum == SubSeq(t, n - 1, n)
<1>4. \A j \in 1 .. n : t[j] \in Byte
    BY <1>3, ElementOfSeq
<1>5. /\ sent \in Seq(Byte) /\ Len(sent) = Len(body)
      /\ \A j \in 1 .. Len(body) : sent[j] = t[2 + j]
    <2> DEFINE a == 3
               b == n - 2
    <2>1. a \in Int /\ b \in Int /\ \A j \in a .. b : t[j] \in Byte
        BY <1>1, <1>4
    <2> HIDE DEF a, b
    <2>2. /\ SubSeq(t, a, b) \in Seq(Byte)
          /\ Len(SubSeq(t, a, b)) = IF a <= b THEN b - a + 1 ELSE 0
          /\ \A j \in 1 .. b - a + 1 : SubSeq(t, a, b)[j] = t[a + j - 1]
        BY <2>1, SubSeqProperties
    <2>3. b - a + 1 = Len(body) /\ a <= b
        BY <1>1 DEF a, b
    <2>4. \A j \in 1 .. Len(body) : a + j - 1 = 2 + j
        BY <1>1 DEF a
    <2> QED  BY <2>2, <2>3, <2>4 DEF a, b
<1>6. sum[1] = t[n - 1] /\ sum[2] = t[n]
    <2> DEFINE a == n - 1
               b == n
    <2>1. a \in Int /\ b \in Int /\ \A j \in a .. b : t[j] \in Byte
        BY <1>1, <1>4
    <2>2. b - a + 1 = 2 /\ a + 1 - 1 = n - 1 /\ a + 2 - 1 = n
        BY <1>1
    <2> HIDE DEF a, b
    <2>3. \A j \in 1 .. b - a + 1 : SubSeq(t, a, b)[j] = t[a + j - 1]
        BY <2>1, SubSeqProperties
    <2>4. 1 \in 1 .. b - a + 1 /\ 2 \in 1 .. b - a + 1
        BY <2>2
    <2>5. SubSeq(t, a, b)[1] = t[n - 1] /\ SubSeq(t, a, b)[2] = t[n]
        BY <2>3, <2>2, <2>4
    <2> QED  BY <2>5 DEF a, b
<1>7. /\ \A j \in 1 .. Len(body) : raw[2 + j] = body[j]
      /\ raw[n - 1] = end[1] /\ raw[n] = end[2]
    <2>1. 22 + p + d + 1 = n - 1 /\ 22 + p + d + 2 = n
        BY <1>1
    <2>2. 1 \in 1 .. Len(end) /\ 2 \in 1 .. Len(end)
        BY <1>2
    <2>3. raw[22 + p + d + 1] = end[1] /\ raw[22 + p + d + 2] = end[2]
        BY <1>1, <2>2 DEF Bears
    <2>4. \A j \in 1 .. Len(body) : raw[2 + j] = body[j]
        BY <1>1 DEF Bears
    <2> QED  BY <2>1, <2>3, <2>4
<1> HIDE DEF sent, sum, n
<1>8. n \in Nat /\ i \in 1 .. n /\ n - 1 \in 1 .. n /\ n \in 1 .. n /\ 1 \in 1 .. n /\ 2 \in 1 .. n
    BY <1>1, <1>3 DEF n
<1>9. CASE i \in 1 .. 2
    <2>1. t[i] # 253
        BY <1>1, <1>9, <1>3
    <2>2. SubSeq(t, 1, 4) # <<253, 253, 2, 16>>
        <3> DEFINE h == <<253, 253, 2, 16>>
        <3>1. 1 \in Int /\ 4 \in Int /\ \A j \in 1 .. 4 : t[j] \in Byte
            BY <1>1, <1>4
        <3>2. \A j \in 1 .. 4 - 1 + 1 : SubSeq(t, 1, 4)[j] = t[1 + j - 1]
            BY <3>1, SubSeqProperties
        <3>3. i \in 1 .. 4 - 1 + 1 /\ 1 + i - 1 = i
            BY <1>9
        <3>4. SubSeq(t, 1, 4)[i] = t[i]
            BY <3>2, <3>3
        <3>5. h[i] = 253
            <4>1. h[1] = 253 /\ h[2] = 253
                OBVIOUS
            <4>2. i = 1 \/ i = 2
                BY <1>9
            <4> HIDE DEF h
            <4> QED  BY <4>1, <4>2
        <3> HIDE DEF h
        <3>6. SubSeq(t, 1, 4) # h
            <4> SUFFICES ASSUME SubSeq(t, 1, 4) = h
                         PROVE  FALSE
                OBVIOUS
            <4>1. SubSeq(t, 1, 4)[i] = h[i]
                OBVIOUS
            <4>2. t[i] = h[i]
                BY <3>4, <4>1
            <4>3. t[i] = 253
                BY <3>5, <4>2
            <4> QED  BY <2>1, <4>3
        <3> QED  BY <3>6 DEF h
    <2> QED  BY <2>2 DEF Frame
<1>10. CASE i \in 3 .. n - 2
    <2>1. i - 2 \in 1 .. Len(body) /\ 2 + (i - 2) = i /\ i # n - 1 /\ i # n
        BY <1>1, <1>10
    <2>2. sent[i - 2] # body[i - 2]
        BY <1>5, <1>7, <1>3, <2>1
    <2>3. ASSUME NEW j \in 1 .. Len(body), j # i - 2  PROVE sent[j] = body[j]
        <3>1. 2 + j \in 1 .. n /\ 2 + j # i
            BY <1>1, <2>1, <2>3
        <3> QED  BY <1>5, <1>7, <1>3, <3>1
    <2>4. Checksum(sent) # Checksum(body)
        <3>1. OneOff(body, sent, i - 2)
            BY <1>5, <2>1, <2>2, <2>3 DEF OneOff
        <3> QED  BY <1>1, <1>5, <3>1, ChecksumTells
    <2>5. sum[1] = end[1] /\ sum[2] = end[2]
        BY <1>6, <1>7, <1>8, <1>3, <2>1
    <2>6. Num16(sum) = Num16(end)
        BY <2>5 DEF Num16
    <2>7. Checksum(sent) # Num16(sum)
        BY <1>2, <2>4, <2>6
    <2> QED  BY <1>3, <2>7 DEF Frame, sent, sum
<1>11. CASE i \in n - 1 .. n
    <2>1. \A j \in 1 .. Len(body) : 2 + j \in 1 .. n /\ 2 + j # i
        BY <1>1, <1>11
    <2>2. \A j \in 1 .. Len(body) : sent[j] = body[j]
        BY <1>5, <1>7, <1>3, <2>1
    <2>3. sent = body
        BY <1>1, <1>5, <2>2, SeqEqual
    <2>4. Num16(sum) # Num16(end)
        <3> DEFINE x == sum[1]
                   y == sum[2]
                   u == end[1]
                   v == end[2]
        <3>1. u \in Byte /\ v \in Byte
            <4>1. 1 \in 1 .. Len(end) /\ 2 \in 1 .. Len(end) /\ end \in Seq(Byte)
                BY <1>2
            <4> QED  BY <4>1, ElementOfSeq
        <3>2. x \in Byte /\ y \in Byte
            BY <1>4, <1>6, <1>8
        <3>3. (x # u /\ y = v) \/ (x = u /\ y # v)
            <4>1. (i = n - 1 /\ n # i) \/ (i = n /\ n - 1 # i)
                BY <1>8, <1>11
            <4> QED  BY <1>6, <1>7, <1>8, <1>3, <4>1
        <3>4. Num16(sum) = x + 256 * y /\ Num16(end) = u + 256 * v
            BY DEF Num16
        <3> HIDE DEF x, y, u, v
        <3>5. x + 256 * y # u + 256 * v
            BY <3>1, <3>2, <3>3 DEF Byte
        <3> QED  BY <3>4, <3>5
    <2>5. Checksum(sent) # Num16(sum)
        BY <1>2, <2>3, <2>4
    <2> QED  BY <1>3, <2>5 DEF Frame, sent, sum
<1>12. i \in 1 .. 2 \/ i \in 3 .. n - 2 \/ i \in n - 1 .. n
    BY <1>8
<1> QED  BY <1>9, <1>10, <1>11, <1>12

-----------------------------------------------------------------------------
(* DATA blocks: how they are built.                                        *)

\* A recursion over 1 .. n in which what holds at i is made from what holds
\* above i defines a function.
Down(step, n, S) ==
    /\ \A i \in 1 .. n, g \in [1 .. n -> S] : step[i][g] \in S
    /\ \A i \in 1 .. n, f \in [1 .. n -> S], g \in [1 .. n -> S] :
         (\A j \in 1 .. n : j > i => f[j] = g[j]) => step[i][f] = step[i][g]

\* g is such a function above k.
Solves(g, step, k, n, S) ==
    /\ g \in [1 .. n -> S]
    /\ \A i \in 1 .. n : i > k => g[i] = step[i][g]

\* There is one: a parser that reads on from each position is defined.
LEMMA RecursionDown ==
    ASSUME NEW S, S # {}, NEW n \in Nat, NEW step, Down(step, n, S)
    PROVE  \E g : Solves(g, step, 0, n, S)
<1> DEFINE T == {m \in Nat : \E g : Solves(g, step, n - m, n, S)}
<1>1. 0 \in T
    <2> PICK c \in S : TRUE
        OBVIOUS
    <2> DEFINE g == [i \in 1 .. n |-> c]
    <2>1. Solves(g, step, n - 0, n, S)
        BY DEF Solves
    <2> QED  BY <2>1
<1>2. ASSUME NEW m \in Nat, m \in T
      PROVE  m + 1 \in T
    <2>1. PICK f : Solves(f, step, n - m, n, S)
        BY <1>2
    <2> DEFINE g == [i \in 1 .. n |-> step[i][f]]
    <2>2. f \in [1 .. n -> S]
        BY <2>1 DEF Solves
    <2>3. g \in [1 .. n -> S]
        BY <2>2 DEF Down
    <2>4. \A i \in 1 .. n : g[i] = step[i][f]
        OBVIOUS
    <2> HIDE DEF g
    <2>5. \A j \in 1 .. n : j > n - m => f[j] = g[j]
        BY <2>1, <2>4 DEF Solves
    <2>6. ASSUME NEW i \in 1 .. n, i > n - (m + 1)
          PROVE  g[i] = step[i][g]
        <3>1. \A j \in 1 .. n : j > i => j > n - m
            BY <2>6
        <3>2. \A j \in 1 .. n : j > i => f[j] = g[j]
            BY <2>5, <3>1
        <3>3. step[i][f] = step[i][g]
            BY <2>2, <2>3, <3>2 DEF Down
        <3> QED  BY <2>4, <3>3
    <2>7. Solves(g, step, n - (m + 1), n, S)
        BY <2>3, <2>6 DEF Solves
    <2> QED  BY <2>7
<1>3. n \in T
    <2> HIDE DEF T
    <2> QED  BY <1>1, <1>2, Induct
<1>4. n - n = 0
    OBVIOUS
<1> QED  BY <1>3, <1>4

\* The page register before the i-th piece of a block, and the switch to the
\* page of the i-th.
Page(ids, i) == IF i = 0 THEN 0 ELSE HiByte(ids[i])
Switch(ids, i) == IF Page(ids, i) = Page(ids, i - 1) THEN <<>>
                  ELSE <<255, Page(ids, i)>>

\* A page is a byte.
LEMMA SwitchBytes ==
    ASSUME NEW ids \in Seq(Word), NEW i \in 1 .. Len(ids)
    PROVE  /\ Page(ids, i) \in Byte /\ Page(ids, i - 1) \in Byte
           /\ Switch(ids, i) \in Seq(Byte)
<1>1. \A j \in 0 .. Len(ids) : Page(ids, j) \in Byte
    <2> TAKE j \in 0 .. Len(ids)
    <2>1. CASE j = 0
        BY <2>1 DEF Page, Byte
    <2>2. CASE j # 0
        <3> DEFINE x == ids[j]
        <3>1. j \in 1 .. Len(ids)
            BY <2>2
        <3>2. x \in Word
            BY <3>1, ElementOfSeq
        <3> HIDE DEF x
        <3>3. x \in Nat /\ x < 65536
            BY <3>2 DEF Word
        <3>4. x \div 256 \in Nat /\ x \div 256 < 256
            BY <3>3
        <3> DEFINE q == x \div 256
        <3>5. q \in Nat /\ q < 256
            BY <3>4
        <3> HIDE DEF q
        <3>6. q \in Byte
            BY <3>5 DEF Byte
        <3> QED  BY <2>2, <3>6 DEF Page, HiByte, x, q
    <2> QED  BY <2>1, <2>2
<1>2. i \in 0 .. Len(ids) /\ i - 1 \in 0 .. Len(ids)
    OBVIOUS
<1>3. Page(ids, i) \in Byte /\ Page(ids, i - 1) \in Byte
    BY <1>1, <1>2
<1>4. 255 \in Byte /\ <<>> \in Seq(Byte)
    BY DEF Byte
<1>5. <<255, Page(ids, i)>> \in Seq(Byte)
    BY <1>3, <1>4, Single
<1> QED  BY <1>3, <1>4, <1>5 DEF Switch

\* The block after each of its pieces.
Grown(u, ids, pieces) ==
    /\ u[0] = <<>>
    /\ \A i \in 1 .. Len(ids) : u[i] = u[i - 1] \o Switch(ids, i) \o pieces[i]
    /\ \A i \in 0 .. Len(ids) : u[i] \in Seq(Byte)
    /\ Pages(ids, pieces) = u[Len(ids)]

\* The pieces are byte strings.
Pieces(ids, pieces) == \A i \in 1 .. Len(ids) : pieces[i] \in Seq(Byte)

\* Pages: the block is built piece by piece.
LEMMA PagesGrow ==
    ASSUME NEW ids \in Seq(Word), NEW pieces, Pieces(ids, pieces)
    PROVE  \E u : Grown(u, ids, pieces)
<1> DEFINE n == Len(ids)
           step == [i \in 1 .. n |->
                     [x \in Seq(Byte) |-> x \o Switch(ids, i) \o pieces[i]]]
<1>1. n \in Nat
    OBVIOUS
<1> HIDE DEF n
<1>2. ASSUME NEW i \in 1 .. n, NEW x \in Seq(Byte)
      PROVE  x \o Switch(ids, i) \o pieces[i] \in Seq(Byte)
    <2>1. Switch(ids, i) \in Seq(Byte) /\ pieces[i] \in Seq(Byte)
        BY SwitchBytes DEF Pieces, n
    <2>2. x \o Switch(ids, i) \in Seq(Byte)
        BY <2>1, Joined
    <2> QED  BY <2>1, <2>2, Joined
<1>3. Steps(step, n, Seq(Byte))
    BY <1>2 DEF Steps
<1>4. PICK g : Runs(g, <<>>, step, n, Seq(Byte))
    <2> HIDE DEF step
    <2>1. <<>> \in Seq(Byte)
        OBVIOUS
    <2> QED  BY <1>1, <1>3, <2>1, Recursion
<1>5. ASSUME NEW i \in 1 .. n
      PROVE  g[i] = g[i - 1] \o Switch(ids, i) \o pieces[i]
    <2>1. g[i - 1] \in Seq(Byte)
        BY <1>1, <1>4 DEF Runs
    <2>2. step[i][g[i - 1]] = g[i - 1] \o Switch(ids, i) \o pieces[i]
        BY <2>1
    <2> HIDE DEF step
    <2> QED  BY <1>4, <2>2 DEF Runs
<1> DEFINE Is(f) == f = [i \in 0 .. Len(ids) |-> IF i = 0 THEN <<>>
                           ELSE f[i - 1] \o Switch(ids, i) \o pieces[i]]
           u == CHOOSE f : Is(f)
<1>6. Is(g)
    <2>1. g \in [0 .. n -> Seq(Byte)] /\ g[0] = <<>>
        BY <1>4 DEF Runs
    <2>2. \A i \in 0 .. n : g[i] = IF i = 0 THEN <<>>
                           ELSE g[i - 1] \o Switch(ids, i) \o pieces[i]
        <3>1. \A i \in 0 .. n : i # 0 => i \in 1 .. n
            BY <1>1
        <3> QED  BY <1>5, <2>1, <3>1
    <2> QED  BY <2>1, <2>2 DEF n
<1>7. Is(u)
    <2> HIDE DEF Is
    <2> QED  BY <1>6
<1>8. Pages(ids, pieces) = u[n]
    BY DEF Pages, Switch, Page, n
<1>9. u[0] = <<>> /\ \A i \in 1 .. n : u[i] = u[i - 1] \o Switch(ids, i) \o pieces[i]
    <2> HIDE DEF u
    <2> QED  BY <1>1, <1>7 DEF n
<1> HIDE DEF u
<1>10. \A i \in 0 .. n : u[i] \in Seq(Byte)
    <2>1. \A i \in 1 .. n : u[i - 1] \in Seq(Byte) => u[i] \in Seq(Byte)
        BY <1>2, <1>9
    <2>2. u[0] \in Seq(Byte)
        BY <1>9
    <2> QED  BY <1>1, <2>1, <2>2, HandedOn
<1> QED  BY <1>8, <1>9, <1>10 DEF Grown, n

\* Where in the block the pieces begin.
Laid(data, pos, ids, pieces) ==
    /\ data \in Seq(Byte)
    /\ pos[0] = 0 /\ pos[Len(ids)] = Len(data)
    /\ \A i \in 0 .. Len(ids) : pos[i] \in Nat /\ pos[i] <= Len(data)
    /\ \A i \in 1 .. Len(ids) :
         /\ Bears(data, pos[i - 1], Switch(ids, i))
         /\ Bears(data, pos[i - 1] + Len(Switch(ids, i)), pieces[i])
         /\ pos[i] = pos[i - 1] + Len(Switch(ids, i)) + Len(pieces[i])

\* Pages: a block is its switches and pieces, one after the other.
LEMMA PagesLaid ==
    ASSUME NEW ids \in Seq(Word), NEW pieces, Pieces(ids, pieces)
    PROVE  \E pos : Laid(Pages(ids, pieces), pos, ids, pieces)
<1> DEFINE n == Len(ids)
           data == Pages(ids, pieces)
<1>1. n \in Nat
    OBVIOUS
<1>2. PICK u : Grown(u, ids, pieces)
    BY PagesGrow
<1> DEFINE pos == [i \in 0 .. n |-> Len(u[i])]
           sw(i) == Switch(ids, i)
<1>3. /\ u[0] = <<>> /\ data = u[n]
      /\ \A i \in 1 .. n : u[i] = u[i - 1] \o sw(i) \o pieces[i]
      /\ \A i \in 0 .. n : u[i] \in Seq(Byte)
    BY <1>2 DEF Grown
<1>4. \A i \in 1 .. n : sw(i) \in Seq(Byte) /\ pieces[i] \in Seq(Byte)
    BY SwitchBytes DEF Pieces
<1> HIDE DEF n, data, sw
<1>5. ASSUME NEW i \in 1 .. n
      PROVE  /\ i \in 0 .. n /\ i - 1 \in 0 .. n
             /\ u[i - 1] \in Seq(Byte) /\ u[i] \in Seq(Byte)
             /\ Len(u[i - 1]) \in Nat /\ Len(sw(i)) \in Nat /\ Len(pieces[i]) \in Nat
             /\ Len(u[i]) = Len(u[i - 1]) + Len(sw(i)) + Len(pieces[i])
             /\ Bears(data, 0, u[i]) =>
                  /\ Bears(data, 0, u[i - 1])
                  /\ Bears(data, Len(u[i - 1]), sw(i))
                  /\ Bears(data, Len(u[i - 1]) + Len(sw(i)), pieces[i])
    <2> DEFINE a == u[i - 1]
               b == sw(i)
               c == pieces[i]
               ab == a \o b
    <2>1. i \in 0 .. n /\ i - 1 \in 0 .. n
        BY <1>1
    <2>2. a \in Seq(Byte) /\ b \in Seq(Byte) /\ c \in Seq(Byte) /\ u[i] = ab \o c
        BY <1>3, <1>4, <2>1
    <2> HIDE DEF a, b, c
    <2>3. ab \in Seq(Byte) /\ Len(ab) = Len(a) + Len(b) /\ Len(a) \in Nat /\ Len(b) \in Nat
        BY <2>2, Joined
    <2>4. ASSUME Bears(data, 0, u[i])
          PROVE  /\ Bears(data, 0, a)
                 /\ Bears(data, Len(a), b)
                 /\ Bears(data, Len(a) + Len(b), c)
        <3>1. Bears(data, 0, ab) /\ Bears(data, 0 + Len(ab), c)
            <4>1. Bears(data, 0, ab \o c)
                BY <2>2, <2>4
            <4> HIDE DEF ab
            <4> QED  BY <2>2, <2>3, <4>1, Split
        <3>2. Bears(data, 0, a) /\ Bears(data, 0 + Len(a), b)
            BY <2>2, <3>1, Split
        <3>3. 0 + Len(a) = Len(a) /\ 0 + Len(ab) = Len(a) + Len(b)
            <4> HIDE DEF ab
            <4> QED  BY <2>3
        <3> QED  BY <3>1, <3>2, <3>3
    <2>5. u[i] \in Seq(Byte) /\ Len(u[i]) = Len(a) + Len(b) + Len(c) /\ Len(c) \in Nat
        <3> HIDE DEF ab
        <3>1. u[i] \in Seq(Byte) /\ Len(u[i]) = Len(ab) + Len(c) /\ Len(c) \in Nat
            BY <2>2, <2>3, Joined
        <3> QED  BY <2>3, <3>1
    <2> QED  BY <2>1, <2>2, <2>3, <2>4, <2>5 DEF a, b, c
<1> DEFINE T == {m \in Nat : m \in 0 .. n =>
                    Bears(data, 0, u[n - m]) /\ Len(u[n - m]) <= Len(data)}
<1>6. 0 \in T
    <2>1. \A i \in 1 .. Len(data) : data[0 + i] = data[i]
        OBVIOUS
    <2>2. Bears(data, 0, data)
        BY <2>1 DEF Bears
    <2>3. n - 0 = n /\ data \in Seq(Byte) /\ n \in 0 .. n
        BY <1>1, <1>3
    <2>4. Len(data) \in Nat
        BY <2>3
    <2> QED  BY <1>3, <2>2, <2>3, <2>4
<1>7. ASSUME NEW m \in Nat, m \in T
      PROVE  m + 1 \in T
    <2> SUFFICES ASSUME m + 1 \in 0 .. n
                 PROVE  /\ Bears(data, 0, u[n - (m + 1)])
                        /\ Len(u[n - (m + 1)]) <= Len(data)
        OBVIOUS
    <2> DEFINE i == n - m
    <2>1. i \in 1 .. n /\ i - 1 = n - (m + 1) /\ m \in 0 .. n
        BY <1>1
    <2>2. Bears(data, 0, u[i]) /\ Len(u[i]) <= Len(data)
        BY <1>7, <2>1
    <2>3. data \in Seq(Byte) /\ Len(data) \in Nat
        <3>1. data \in Seq(Byte)
            BY <1>1, <1>3
        <3> QED  BY <3>1
    <2> HIDE DEF i
    <2>4. /\ Bears(data, 0, u[i - 1])
          /\ Len(u[i - 1]) \in Nat /\ Len(sw(i)) \in Nat /\ Len(pieces[i]) \in Nat
          /\ Len(u[i]) = Len(u[i - 1]) + Len(sw(i)) + Len(pieces[i])
        BY <1>5, <2>1, <2>2
    <2>5. Len(u[i - 1]) <= Len(data)
        <3> DEFINE x == Len(u[i - 1])
                   y == Len(sw(i))
                   z == Len(pieces[i])
                   d == Len(data)
        <3>1. x \in Nat /\ y \in Nat /\ z \in Nat /\ d \in Nat /\ x + y + z <= d
            BY <2>2, <2>3, <2>4
        <3> HIDE DEF x, y, z, d
        <3>2. x <= d
            BY <3>1
        <3> QED  BY <3>2 DEF x, d
    <2> QED  BY <2>1, <2>4, <2>5
<1>8. Nat \subseteq T
    <2> HIDE DEF T
    <2> QED  BY <1>6, <1>7, Induct
<1>9. ASSUME NEW i \in 0 .. n
      PROVE  Bears(data, 0, u[i]) /\ Len(u[i]) <= Len(data)
    <2>1. n - i \in Nat /\ n - i \in 0 .. n /\ n - (n - i) = i
        BY <1>1
    <2>2. n - i \in T
        BY <1>8, <2>1
    <2> QED  BY <2>1, <2>2
<1> HIDE DEF T
<1>10. /\ pos[0] = 0 /\ pos[n] = Len(data)
       /\ \A i \in 0 .. n : pos[i] \in Nat /\ pos[i] <= Len(data)
    <2>1. 0 \in 0 .. n /\ n \in 0 .. n
        BY <1>1
    <2>2. \A i \in 0 .. n : Len(u[i]) \in Nat
        BY <1>3
    <2>3. Len(<<>>) = 0
        OBVIOUS
    <2> QED  BY <1>3, <1>9, <2>1, <2>2, <2>3
<1>11. ASSUME NEW i \in 1 .. n
       PROVE  /\ Bears(data, pos[i - 1], sw(i))
              /\ Bears(data, pos[i - 1] + Len(sw(i)), pieces[i])
              /\ pos[i] = pos[i - 1] + Len(sw(i)) + Len(pieces[i])
    <2>1. i \in 0 .. n /\ i - 1 \in 0 .. n
        BY <1>5
    <2>2. pos[i - 1] = Len(u[i - 1]) /\ pos[i] = Len(u[i])
        BY <2>1
    <2> HIDE DEF pos
    <2> QED  BY <1>5, <1>9, <2>1, <2>2
<1>12. data \in Seq(Byte)
    BY <1>1, <1>3
<1> HIDE DEF pos
<1>13. Laid(data, pos, ids, pieces)
    BY <1>10, <1>11, <1>12 DEF Laid, n, sw
<1> QED  BY <1>13 DEF data

-----------------------------------------------------------------------------
(* DATA blocks: how they are read.                                         *)

\* Bytes are numbers.
LEMMA ByteNat == \A x \in Byte : x \in Nat
BY DEF Byte

\* A block's bytes.
LEMMA DataBytes ==
    ASSUME NEW data \in Seq(Byte)
    PROVE  /\ Len(data) \in Nat
           /\ \A i \in 1 .. Len(data) + 1 : i <= Len(data) => data[i] \in Byte
           /\ \A i \in 1 .. Len(data) + 1 : i < Len(data) => data[i + 1] \in Byte
<1>1. Len(data) \in Nat
    OBVIOUS
<1>2. \A i \in 1 .. Len(data) : data[i] \in Byte
    BY ElementOfSeq
<1>3. \A i \in 1 .. Len(data) + 1 :
        /\ i <= Len(data) => i \in 1 .. Len(data)
        /\ i < Len(data) => i + 1 \in 1 .. Len(data)
    BY <1>1
<1> QED  BY <1>1, <1>2, <1>3

\* A parameter id of its page and its low byte.
Id(hi, lo) == 256 * hi + lo

\* A parameter id has 16 bits.
LEMMA IdWord ==
    ASSUME NEW hi \in Byte, NEW lo \in Byte
    PROVE  256 * hi + lo \in Word /\ Id(hi, lo) \in Word
BY DEF Byte, Word, Id

\* How the unit reads the ids of a request.
ReadStep(data, f, i, hi) ==
    IF i > Len(data) THEN <<>>
    ELSE IF data[i] \notin {252, 255}
         THEN <<256 * hi + data[i]>> \o f[i + 1][hi]
    ELSE IF i = Len(data) THEN <<>>
    ELSE f[i + 2][IF data[i] = 255 THEN data[i + 1] ELSE hi]

\* f reads the ids from each position with each page.
ReadRun(f, data) ==
    /\ \A i \in 1 .. Len(data) + 1, hi \in Byte : f[i][hi] = ReadStep(data, f, i, hi)
    /\ parseReadDataBlock(data) = f[1][0]

\* parseReadDataBlock: the unit's reading is such a function.
LEMMA ParseReadRuns ==
    ASSUME NEW data \in Seq(Byte)
    PROVE  \E f : ReadRun(f, data)
<1> DEFINE n == Len(data) + 1
           S == [Byte -> Seq(Word)]
           step == [i \in 1 .. n |-> [f \in [1 .. n -> S] |->
                      [hi \in Byte |-> ReadStep(data, f, i, hi)]]]
<1>1. n \in Nat /\ Len(data) \in Nat
    OBVIOUS
<1>2. ASSUME NEW i \in 1 .. n, NEW f \in [1 .. n -> S], NEW hi \in Byte
      PROVE  ReadStep(data, f, i, hi) \in Seq(Word)
    <2>1. CASE i > Len(data)
        BY <2>1 DEF ReadStep
    <2>2. CASE ~ (i > Len(data)) /\ data[i] \notin {252, 255}
        <3>1. data[i] \in Byte /\ i + 1 \in 1 .. n
            BY <1>1, <2>2, DataBytes
        <3>2. <<256 * hi + data[i]>> \in Seq(Word)
            BY <3>1, IdWord, Single
        <3>3. f[i + 1][hi] \in Seq(Word)
            BY <3>1
        <3> QED  BY <2>2, <3>2, <3>3, Joined DEF ReadStep
    <2>3. CASE i = Len(data) /\ data[i] \in {252, 255}
        BY <1>1, <2>3 DEF ReadStep
    <2>4. CASE i < Len(data) /\ data[i] \in {252, 255}
        <3> DEFINE h == IF data[i] = 255 THEN data[i + 1] ELSE hi
        <3>1. h \in Byte /\ i + 2 \in 1 .. n
            BY <1>1, <2>4, DataBytes
        <3> HIDE DEF h
        <3>2. f[i + 2][h] \in Seq(Word)
            BY <3>1
        <3>3. ReadStep(data, f, i, hi) = f[i + 2][h]
            BY <1>1, <2>4 DEF ReadStep, h
        <3> QED  BY <3>2, <3>3
    <2> QED  BY <1>1, <2>1, <2>2, <2>3, <2>4
<1>3. ASSUME NEW i \in 1 .. n, NEW f \in [1 .. n -> S], NEW g \in [1 .. n -> S],
             \A j \in 1 .. n : j > i => f[j] = g[j], NEW hi \in Byte
      PROVE  ReadStep(data, f, i, hi) = ReadStep(data, g, i, hi)
    <2>1. CASE i > Len(data)
        BY <2>1 DEF ReadStep
    <2>2. CASE i = Len(data)
        <3>1. f[i + 1] = g[i + 1]
            BY <1>1, <1>3, <2>2
        <3> QED  BY <1>1, <2>2, <3>1 DEF ReadStep
    <2>3. CASE i < Len(data)
        <3>1. f[i + 1] = g[i + 1] /\ f[i + 2] = g[i + 2]
            <4>1. i + 1 \in 1 .. n /\ i + 2 \in 1 .. n /\ i + 1 > i /\ i + 2 > i
                BY <1>1, <2>3
            <4> QED  BY <1>3, <4>1
        <3> QED  BY <1>1, <2>3, <3>1 DEF ReadStep
    <2> QED  BY <1>1, <2>1, <2>2, <2>3
<1>4. Down(step, n, S)
    <2>1. ASSUME NEW i \in 1 .. n, NEW g \in [1 .. n -> S]
          PROVE  step[i][g] \in S
        BY <1>2
    <2>2. ASSUME NEW i \in 1 .. n, NEW f \in [1 .. n -> S], NEW g \in [1 .. n -> S],
                 \A j \in 1 .. n : j > i => f[j] = g[j]
          PROVE  step[i][f] = step[i][g]
        <3>1. \A hi \in Byte : ReadStep(data, f, i, hi) = ReadStep(data, g, i, hi)
            BY <1>3, <2>2
        <3> QED  BY <3>1
    <2> HIDE DEF step, S, n
    <2> QED  BY <2>1, <2>2 DEF Down
<1>5. PICK g : Solves(g, step, 0, n, S)
    <2>1. S # {}
        <3>1. [hi \in Byte |-> <<>>] \in S
            OBVIOUS
        <3> QED  BY <3>1
    <2> HIDE DEF step, S, n
    <2> QED  BY <1>1, <1>4, <2>1, RecursionDown
<1>6. g \in [1 .. n -> S]
    BY <1>5 DEF Solves
<1>7. ASSUME NEW i \in 1 .. n
      PROVE  g[i] = [hi \in Byte |-> ReadStep(data, g, i, hi)]
    <2>1. step[i][g] = [hi \in Byte |-> ReadStep(data, g, i, hi)]
        BY <1>6
    <2>2. i > 0
        BY <1>1
    <2> HIDE DEF step
    <2> QED  BY <1>5, <2>1, <2>2 DEF Solves
<1> DEFINE Is(f) == f = [i \in 1 .. Len(data) + 1 |-> [hi \in Byte |->
             IF i > Len(data) THEN <<>>
             ELSE IF data[i] \notin {252, 255}
                  THEN <<256 * hi + data[i]>> \o f[i + 1][hi]
             ELSE IF i = Len(data) THEN <<>>
             ELSE f[i + 2][IF data[i] = 255 THEN data[i + 1] ELSE hi]]]
           from == CHOOSE f : Is(f)
<1>8. parseReadDataBlock(data) = from[1][0]
    BY DEF parseReadDataBlock
<1>9. \A f : Is(f) <=> f = [i \in 1 .. n |-> [hi \in Byte |-> ReadStep(data, f, i, hi)]]
    BY DEF ReadStep
<1> HIDE DEF Is
<1>10. Is(g)
    <2> HIDE DEF n, S
    <2>1. g = [i \in 1 .. n |-> [hi \in Byte |-> ReadStep(data, g, i, hi)]]
        BY <1>6, <1>7
    <2> QED  BY <1>9, <2>1
<1>11. Is(from)
    BY <1>10
<1> HIDE DEF from
<1>12. from = [i \in 1 .. n |-> [hi \in Byte |-> ReadStep(data, from, i, hi)]]
    BY <1>9, <1>11
<1> HIDE DEF n
<1>13. \A i \in 1 .. n, hi \in Byte : from[i][hi] = ReadStep(data, from, i, hi)
    <2> TAKE i \in 1 .. n, hi \in Byte
    <2>1. from[i] = [h \in Byte |-> ReadStep(data, from, i, h)]
        BY <1>12
    <2> QED  BY <2>1
<1>14. ReadRun(from, data)
    BY <1>8, <1>13 DEF ReadRun, n
<1> QED  BY <1>14

\* The entries a block may have.
Entries == [id : Word, raw : Seq(Byte), unsupported : BOOLEAN]

\* What a parser may say of a block, that it refuses it, and that an entry is
\* before the others.
Results == [ok : BOOLEAN, entries : Seq(Entries)]
Refused == [ok |-> FALSE, entries |-> <<>>]
Then(e, rest) == IF rest.ok THEN [rest EXCEPT !.entries = <<e>> \o @] ELSE Refused

\* The entry of a parameter the unit has no value of, and of one it has one of.
Absent(id) == Entry(id, <<>>, TRUE)
Valued(id, raw) == Entry(id, raw, FALSE)

\* How a block's entries are read.
EntryStep(data, f, i, hi) ==
    CASE i > Len(data) -> [ok |-> TRUE, entries |-> <<>>]
      [] i = Len(data) -> Refused
      [] i < Len(data) /\ data[i] = 255 -> f[i + 2][data[i + 1]]
      [] i < Len(data) /\ data[i] = 253 ->
           Then(Absent(Id(hi, data[i + 1])), f[i + 2][hi])
      [] i < Len(data) /\ data[i] = 254 ->
           IF i + 2 > Len(data) \/ i + 2 + data[i + 1] > Len(data)
           THEN Refused
           ELSE Then(Valued(Id(hi, data[i + 2]), SubSeq(data, i + 3, i + 2 + data[i + 1])),
                     f[i + 3 + data[i + 1]][hi])
      [] i < Len(data) /\ data[i] = 252 -> Refused
      [] OTHER -> Then(Valued(Id(hi, data[i]), <<data[i + 1]>>), f[i + 2][hi])

\* f reads the entries from each position with each page.
EntryRun(f, data) ==
    /\ \A i \in 1 .. Len(data) + 1, hi \in Byte : f[i][hi] = EntryStep(data, f, i, hi)
    /\ ParseDataBlock(data) = f[1][0]

\* ParseDataBlock at the end of a block, and with a byte alone.
LEMMA EntryStepEnd ==
    ASSUME NEW data, NEW f, NEW i \in Int, NEW hi, Len(data) \in Int, i >= Len(data)
    PROVE  EntryStep(data, f, i, hi) = IF i = Len(data) THEN Refused
                                       ELSE [ok |-> TRUE, entries |-> <<>>]
<1>1. CASE i > Len(data)
    <2>1. i > Len(data) /\ i # Len(data) /\ ~ (i < Len(data))
        BY <1>1
    <2> QED  BY <2>1 DEF EntryStep
<1>2. CASE i = Len(data)
    <2>1. ~ (i > Len(data)) /\ i = Len(data) /\ ~ (i < Len(data))
        BY <1>2
    <2> QED  BY <2>1 DEF EntryStep
<1> QED  BY <1>1, <1>2

\* ParseDataBlock at a page switch.
LEMMA EntryStepSwitch ==
    ASSUME NEW data, NEW f, NEW i \in Int, NEW hi, Len(data) \in Int, i < Len(data),
           data[i] = 255
    PROVE  EntryStep(data, f, i, hi) = f[i + 2][data[i + 1]]
<1>1. ~ (i > Len(data)) /\ i # Len(data) /\ i < Len(data)
    OBVIOUS
<1> QED  BY <1>1 DEF EntryStep

\* ParseDataBlock at a parameter without a value.
LEMMA EntryStepNone ==
    ASSUME NEW data, NEW f, NEW i \in Int, NEW hi, Len(data) \in Int, i < Len(data),
           data[i] = 253
    PROVE  EntryStep(data, f, i, hi)
             = Then(Absent(Id(hi, data[i + 1])), f[i + 2][hi])
<1>1. ~ (i > Len(data)) /\ i # Len(data) /\ i < Len(data)
    OBVIOUS
<1> QED  BY <1>1 DEF EntryStep

\* ParseDataBlock at a value that is cut short.
LEMMA EntryStepCut ==
    ASSUME NEW data, NEW f, NEW i \in Int, NEW hi, Len(data) \in Int, i < Len(data),
           data[i] = 254, NEW size \in Int, size = data[i + 1],
           i + 2 > Len(data) \/ i + 2 + size > Len(data)
    PROVE  EntryStep(data, f, i, hi) = Refused
<1>1. ~ (i > Len(data)) /\ i # Len(data) /\ i < Len(data)
    OBVIOUS
<1> QED  BY <1>1 DEF EntryStep

\* A value of size bytes begins at i.
SizedAt(data, i, size, raw) ==
    /\ data[i] = 254 /\ size = data[i + 1]
    /\ i + 2 <= Len(data) /\ i + 2 + size <= Len(data)
    /\ raw = SubSeq(data, i + 3, i + 2 + size)

\* ParseDataBlock at a value with a size.
LEMMA EntryStepSized ==
    ASSUME NEW data, NEW f, NEW i \in Int, NEW hi, Len(data) \in Int,
           NEW size \in Int, NEW raw, SizedAt(data, i, size, raw)
    PROVE  EntryStep(data, f, i, hi)
             = Then(Valued(Id(hi, data[i + 2]), raw), f[i + 3 + size][hi])
<1>1. /\ data[i] = 254 /\ size = data[i + 1]
      /\ i + 2 <= Len(data) /\ i + 2 + size <= Len(data)
      /\ raw = SubSeq(data, i + 3, i + 2 + size)
    BY DEF SizedAt
<1>2. ~ (i > Len(data)) /\ i # Len(data) /\ i < Len(data)
    BY <1>1
<1>3. ~ (i + 2 > Len(data) \/ i + 2 + size > Len(data))
    BY <1>1
<1> QED  BY <1>1, <1>2, <1>3 DEF EntryStep

\* ParseDataBlock at another function.
LEMMA EntryStepFunction ==
    ASSUME NEW data, NEW f, NEW i \in Int, NEW hi, Len(data) \in Int, i < Len(data),
           data[i] = 252
    PROVE  EntryStep(data, f, i, hi) = Refused
<1>1. ~ (i > Len(data)) /\ i # Len(data) /\ i < Len(data)
    OBVIOUS
<1> QED  BY <1>1 DEF EntryStep

\* A value of one byte stands at i.
OneAt(data, i, raw) ==
    /\ i < Len(data) /\ data[i] \notin {252, 253, 254, 255}
    /\ raw = <<data[i + 1]>>

\* ParseDataBlock at a value of one byte.
LEMMA EntryStepOne ==
    ASSUME NEW data, NEW f, NEW i \in Int, NEW hi, Len(data) \in Int,
           NEW raw, OneAt(data, i, raw)
    PROVE  EntryStep(data, f, i, hi) = Then(Valued(Id(hi, data[i]), raw), f[i + 2][hi])
<1>1. i < Len(data) /\ raw = <<data[i + 1]>> /\ data[i] \notin {252, 253, 254, 255}
    BY DEF OneAt
<1>2. ~ (i > Len(data)) /\ i # Len(data)
    BY <1>1
<1>3. data[i] # 252 /\ data[i] # 253 /\ data[i] # 254 /\ data[i] # 255
    BY <1>1
<1> QED  BY <1>1, <1>2, <1>3 DEF EntryStep

\* Both are entries.
LEMMA EntryKinds ==
    ASSUME NEW id \in Word, NEW raw \in Seq(Byte)
    PROVE  Absent(id) \in Entries /\ Valued(id, raw) \in Entries
BY DEF Absent, Valued, Entry, Entries

\* An entry before a result is a result.
LEMMA ThenResult ==
    ASSUME NEW e \in Entries, NEW rest \in Results
    PROVE  Then(e, rest) \in Results
<1>1. rest.ok \in BOOLEAN /\ rest.entries \in Seq(Entries)
    BY DEF Results
<1>2. <<e>> \o rest.entries \in Seq(Entries)
    <2>1. <<e>> \in Seq(Entries)
        BY Single
    <2> QED  BY <1>1, <2>1, Joined
<1>3. [rest EXCEPT !.entries = <<e>> \o @] \in Results
    <2>1. [rest EXCEPT !.entries = <<e>> \o @] = [rest EXCEPT !.entries = <<e>> \o rest.entries]
        BY DEF Results
    <2> QED  BY <1>1, <1>2 DEF Results
<1>4. Refused \in Results
    BY DEF Refused, Results
<1> QED  BY <1>3, <1>4 DEF Then

\* ParseDataBlock says one of the results.
LEMMA EntryStepResult ==
    ASSUME NEW data \in Seq(Byte), NEW n, n = Len(data) + 1,
           NEW f, \A j \in 1 .. n, h \in Byte : f[j][h] \in Results,
           NEW i \in 1 .. n, NEW hi \in Byte
    PROVE  EntryStep(data, f, i, hi) \in Results
<1>1. Len(data) \in Nat /\ n \in Nat
    OBVIOUS
<1>2. Refused \in Results /\ [ok |-> TRUE, entries |-> <<>>] \in Results
    BY DEF Refused, Results
<1>3. \A j \in 1 .. n, h \in Byte : f[j][h] \in Results
    OBVIOUS
<1>4. i \in Int /\ Len(data) \in Int
    BY <1>1
<1>5. CASE i >= Len(data)
    <2>1. EntryStep(data, f, i, hi) = IF i = Len(data) THEN Refused
                                      ELSE [ok |-> TRUE, entries |-> <<>>]
        BY <1>4, <1>5, EntryStepEnd
    <2> QED  BY <1>2, <2>1
<1>6. CASE i < Len(data)
    <2>1. i + 2 \in 1 .. n /\ data[i] \in Byte /\ data[i + 1] \in Byte
        BY <1>1, <1>6, DataBytes
    <2>2. /\ <<>> \in Seq(Byte) /\ <<data[i + 1]>> \in Seq(Byte)
          /\ Id(hi, data[i]) \in Word /\ Id(hi, data[i + 1]) \in Word
        BY <2>1, Single, IdWord
    <2>3. f[i + 2][hi] \in Results /\ f[i + 2][data[i + 1]] \in Results
        BY <1>3, <2>1
    <2>4. /\ Then(Absent(Id(hi, data[i + 1])), f[i + 2][hi]) \in Results
          /\ Then(Valued(Id(hi, data[i]), <<data[i + 1]>>), f[i + 2][hi]) \in Results
        BY <2>2, <2>3, EntryKinds, ThenResult
    <2>5. ~ (i > Len(data)) /\ i # Len(data)
        BY <1>1, <1>6
    <2>6. CASE data[i] = 255
        <3>1. EntryStep(data, f, i, hi) = f[i + 2][data[i + 1]]
            BY <1>4, <1>6, <2>6, EntryStepSwitch
        <3> QED  BY <2>3, <3>1
    <2>7. CASE data[i] = 253
        <3>1. EntryStep(data, f, i, hi)
                = Then(Absent(Id(hi, data[i + 1])), f[i + 2][hi])
            BY <1>4, <1>6, <2>7, EntryStepNone
        <3> QED  BY <2>4, <3>1
    <2>8. CASE data[i] = 254
        <3>1. PICK size \in Nat : size = data[i + 1]
            <4>1. data[i + 1] \in Nat
                BY <2>1, ByteNat
            <4> QED  BY <4>1
        <3> DEFINE raw == SubSeq(data, i + 3, i + 2 + size)
        <3>2. size \in Int /\ size = data[i + 1] /\ raw = SubSeq(data, i + 3, i + 2 + size)
            BY <3>1
        <3>3. CASE i + 2 > Len(data) \/ i + 2 + size > Len(data)
            BY <1>2, <1>4, <1>6, <2>8, <3>2, <3>3, EntryStepCut
        <3>4. CASE i + 2 <= Len(data) /\ i + 2 + size <= Len(data)
            <4>1. i + 2 \in 1 .. Len(data) /\ i + 3 + size \in 1 .. n
                BY <1>1, <3>4, <3>1
            <4>2. data[i + 2] \in Byte
                BY <4>1, ElementOfSeq
            <4>3. raw \in Seq(Byte)
                <5> DEFINE a == i + 3
                           b == i + 2 + size
                <5>1. a \in Int /\ b \in Int /\ \A j \in a .. b : j \in 1 .. Len(data)
                    BY <1>1, <3>4, <3>1
                <5> HIDE DEF a, b
                <5>2. \A j \in a .. b : data[j] \in Byte
                    BY <5>1, ElementOfSeq
                <5>3. SubSeq(data, a, b) \in Seq(Byte)
                    BY <5>1, <5>2, SubSeqProperties
                <5> QED  BY <5>3 DEF a, b
            <4>4. f[i + 3 + size][hi] \in Results /\ Id(hi, data[i + 2]) \in Word
                BY <1>3, <4>1, <4>2, IdWord
            <4> HIDE DEF raw
            <4>5. Then(Valued(Id(hi, data[i + 2]), raw), f[i + 3 + size][hi]) \in Results
                BY <4>3, <4>4, EntryKinds, ThenResult
            <4>6. SizedAt(data, i, size, raw)
                BY <2>8, <3>2, <3>4 DEF SizedAt, raw
            <4>7. EntryStep(data, f, i, hi)
                    = Then(Valued(Id(hi, data[i + 2]), raw), f[i + 3 + size][hi])
                <5>1. size \in Int
                    BY <3>2
                <5> HIDE DEF raw
                <5> QED  BY <1>4, <4>6, <5>1, EntryStepSized
            <4> QED  BY <4>5, <4>7
        <3> QED
            <4>1. (i + 2 > Len(data) \/ i + 2 + size > Len(data))
                    \/ (i + 2 <= Len(data) /\ i + 2 + size <= Len(data))
                BY <1>1, <3>1
            <4> QED  BY <3>3, <3>4, <4>1
    <2>9. CASE data[i] = 252
        BY <1>2, <1>4, <1>6, <2>9, EntryStepFunction
    <2>10. CASE data[i] \notin {252, 253, 254, 255}
        <3> DEFINE raw == <<data[i + 1]>>
        <3>1. OneAt(data, i, raw)
            BY <1>6, <2>10 DEF OneAt
        <3>2. Then(Valued(Id(hi, data[i]), raw), f[i + 2][hi]) \in Results
            BY <2>4
        <3> HIDE DEF raw
        <3>3. EntryStep(data, f, i, hi) = Then(Valued(Id(hi, data[i]), raw), f[i + 2][hi])
            BY <1>4, <3>1, EntryStepOne
        <3> QED  BY <3>2, <3>3
    <2> QED  BY <2>6, <2>7, <2>8, <2>9, <2>10
<1> QED  BY <1>4, <1>5, <1>6

\* ParseDataBlock at a position depends on what it says further on only.
LEMMA EntryStepAhead ==
    ASSUME NEW data \in Seq(Byte), NEW n, n = Len(data) + 1, NEW f, NEW g,
           NEW i \in 1 .. n, \A j \in 1 .. n : j > i => f[j] = g[j], NEW hi \in Byte
    PROVE  EntryStep(data, f, i, hi) = EntryStep(data, g, i, hi)
<1>1. Len(data) \in Nat /\ n \in Nat
    OBVIOUS
<1>2. i \in Int /\ Len(data) \in Int
    BY <1>1
<1>3. CASE i >= Len(data)
    <2> DEFINE r == IF i = Len(data) THEN Refused ELSE [ok |-> TRUE, entries |-> <<>>]
    <2>1. EntryStep(data, f, i, hi) = r
        BY <1>2, <1>3, EntryStepEnd
    <2>2. EntryStep(data, g, i, hi) = r
        BY <1>2, <1>3, EntryStepEnd
    <2> QED  BY <2>1, <2>2
<1>4. CASE i < Len(data)
    <2>1. f[i + 2] = g[i + 2]
        BY <1>1, <1>4
    <2>2. CASE data[i] = 255
        <3>1. EntryStep(data, f, i, hi) = f[i + 2][data[i + 1]]
            BY <1>2, <1>4, <2>2, EntryStepSwitch
        <3>2. EntryStep(data, g, i, hi) = g[i + 2][data[i + 1]]
            BY <1>2, <1>4, <2>2, EntryStepSwitch
        <3> QED  BY <2>1, <3>1, <3>2
    <2>3. CASE data[i] = 253
        <3> DEFINE e == Absent(Id(hi, data[i + 1]))
        <3>1. EntryStep(data, f, i, hi) = Then(e, f[i + 2][hi])
            BY <1>2, <1>4, <2>3, EntryStepNone
        <3>2. EntryStep(data, g, i, hi) = Then(e, g[i + 2][hi])
            BY <1>2, <1>4, <2>3, EntryStepNone
        <3> QED  BY <2>1, <3>1, <3>2
    <2>4. CASE data[i] = 254
        <3>1. PICK size \in Nat : size = data[i + 1]
            <4>1. data[i + 1] \in Byte
                BY <1>4, DataBytes
            <4>2. data[i + 1] \in Nat
                BY <4>1, ByteNat
            <4> QED  BY <4>2
        <3> DEFINE raw == SubSeq(data, i + 3, i + 2 + size)
                   e == Valued(Id(hi, data[i + 2]), raw)
        <3>2. size \in Int /\ size = data[i + 1] /\ raw = SubSeq(data, i + 3, i + 2 + size)
            BY <3>1
        <3> HIDE DEF raw
        <3>3. size \in Int
            BY <3>2
        <3>4. CASE i + 2 > Len(data) \/ i + 2 + size > Len(data)
            <4>1. EntryStep(data, f, i, hi) = Refused
                BY <1>2, <1>4, <2>4, <3>2, <3>4, EntryStepCut
            <4>2. EntryStep(data, g, i, hi) = Refused
                BY <1>2, <1>4, <2>4, <3>2, <3>4, EntryStepCut
            <4> QED  BY <4>1, <4>2
        <3>5. CASE i + 2 <= Len(data) /\ i + 2 + size <= Len(data)
            <4>1. SizedAt(data, i, size, raw)
                BY <2>4, <3>2, <3>5 DEF SizedAt
            <4>2. EntryStep(data, f, i, hi) = Then(e, f[i + 3 + size][hi])
                BY <1>2, <3>3, <4>1, EntryStepSized
            <4>3. EntryStep(data, g, i, hi) = Then(e, g[i + 3 + size][hi])
                BY <1>2, <3>3, <4>1, EntryStepSized
            <4> HIDE DEF e
            <4>4. i + 3 + size \in 1 .. n /\ i + 3 + size > i
                BY <1>1, <3>1, <3>5
            <4>5. f[i + 3 + size] = g[i + 3 + size]
                BY <4>4
            <4> QED  BY <4>2, <4>3, <4>5
        <3>6. (i + 2 > Len(data) \/ i + 2 + size > Len(data))
                \/ (i + 2 <= Len(data) /\ i + 2 + size <= Len(data))
            BY <1>1, <3>1
        <3> QED  BY <3>4, <3>5, <3>6
    <2>5. CASE data[i] = 252
        BY <1>2, <1>4, <2>5, EntryStepFunction
    <2>6. CASE data[i] \notin {252, 253, 254, 255}
        <3> DEFINE raw == <<data[i + 1]>>
                   e == Valued(Id(hi, data[i]), raw)
        <3>1. OneAt(data, i, raw)
            BY <1>4, <2>6 DEF OneAt
        <3> HIDE DEF raw
        <3>2. EntryStep(data, f, i, hi) = Then(e, f[i + 2][hi])
            BY <1>2, <3>1, EntryStepOne
        <3>3. EntryStep(data, g, i, hi) = Then(e, g[i + 2][hi])
            BY <1>2, <3>1, EntryStepOne
        <3> QED  BY <2>1, <3>2, <3>3
    <2> QED  BY <2>2, <2>3, <2>4, <2>5, <2>6
<1> QED  BY <1>1, <1>3, <1>4

\* ParseDataBlock: the parser is such a function.
LEMMA ParseDataBlockRuns ==
    ASSUME NEW data \in Seq(Byte)
    PROVE  \E f : EntryRun(f, data)
<1> DEFINE n == Len(data) + 1
           S == [Byte -> Results]
           step == [i \in 1 .. n |-> [f \in [1 .. n -> S] |->
                      [hi \in Byte |-> EntryStep(data, f, i, hi)]]]
<1>1. n \in Nat /\ Len(data) \in Nat
    OBVIOUS
<1>2. Down(step, n, S)
    <2>1. ASSUME NEW i \in 1 .. n, NEW g \in [1 .. n -> S]
          PROVE  step[i][g] \in S
        <3>1. \A j \in 1 .. n, h \in Byte : g[j][h] \in Results
            OBVIOUS
        <3>2. \A hi \in Byte : EntryStep(data, g, i, hi) \in Results
            BY <3>1, EntryStepResult
        <3> QED  BY <3>2
    <2>2. ASSUME NEW i \in 1 .. n, NEW f \in [1 .. n -> S], NEW g \in [1 .. n -> S],
                 \A j \in 1 .. n : j > i => f[j] = g[j]
          PROVE  step[i][f] = step[i][g]
        <3>1. \A hi \in Byte : EntryStep(data, f, i, hi) = EntryStep(data, g, i, hi)
            BY <2>2, EntryStepAhead
        <3> QED  BY <3>1
    <2> HIDE DEF step, S, n
    <2> QED  BY <2>1, <2>2 DEF Down
<1>3. PICK g : Solves(g, step, 0, n, S)
    <2>1. S # {}
        <3>1. Refused \in Results
            BY DEF Refused, Results
        <3>2. [hi \in Byte |-> Refused] \in S
            BY <3>1
        <3> QED  BY <3>2
    <2> HIDE DEF step, S, n
    <2> QED  BY <1>1, <1>2, <2>1, RecursionDown
<1>4. g \in [1 .. n -> S]
    BY <1>3 DEF Solves
<1>5. ASSUME NEW i \in 1 .. n
      PROVE  g[i] = [hi \in Byte |-> EntryStep(data, g, i, hi)]
    <2>1. step[i][g] = [hi \in Byte |-> EntryStep(data, g, i, hi)]
        BY <1>4
    <2>2. i > 0
        BY <1>1
    <2> HIDE DEF step
    <2> QED  BY <1>3, <2>1, <2>2 DEF Solves
<1> DEFINE refused == [ok |-> FALSE, entries |-> <<>>]
           then(e, rest) == IF rest.ok THEN [rest EXCEPT !.entries = <<e>> \o @]
                            ELSE refused
           Is(f) == f = [i \in 1 .. Len(data) + 1 |-> [hi \in Byte |->
             CASE i > Len(data) -> [ok |-> TRUE, entries |-> <<>>]
               [] i = Len(data) -> refused
               [] i < Len(data) /\ data[i] = 255 -> f[i + 2][data[i + 1]]
               [] i < Len(data) /\ data[i] = 253 ->
                   then(Entry(256 * hi + data[i + 1], <<>>, TRUE), f[i + 2][hi])
               [] i < Len(data) /\ data[i] = 254 ->
                   IF i + 2 > Len(data) \/ i + 2 + data[i + 1] > Len(data)
                   THEN refused
                   ELSE then(Entry(256 * hi + data[i + 2],
                                   SubSeq(data, i + 3, i + 2 + data[i + 1]),
                                   FALSE), f[i + 3 + data[i + 1]][hi])
               [] i < Len(data) /\ data[i] = 252 -> refused
               [] OTHER -> then(Entry(256 * hi + data[i], <<data[i + 1]>>, FALSE),
                               f[i + 2][hi])]]
           from == CHOOSE f : Is(f)
<1>6. ParseDataBlock(data) = from[1][0]
    BY DEF ParseDataBlock
<1>7. \A f : Is(f) <=> f = [i \in 1 .. n |-> [hi \in Byte |-> EntryStep(data, f, i, hi)]]
    BY DEF EntryStep, Then, Refused, Id, Absent, Valued
<1> HIDE DEF Is
<1>8. Is(g)
    <2> HIDE DEF n, S
    <2>1. g = [i \in 1 .. n |-> [hi \in Byte |-> EntryStep(data, g, i, hi)]]
        BY <1>4, <1>5
    <2> QED  BY <1>7, <2>1
<1>9. Is(from)
    BY <1>8
<1> HIDE DEF from
<1>10. from = [i \in 1 .. n |-> [hi \in Byte |-> EntryStep(data, from, i, hi)]]
    BY <1>7, <1>9
<1> HIDE DEF n
<1>11. \A i \in 1 .. n, hi \in Byte : from[i][hi] = EntryStep(data, from, i, hi)
    <2> TAKE i \in 1 .. n, hi \in Byte
    <2>1. from[i] = [h \in Byte |-> EntryStep(data, from, i, h)]
        BY <1>10
    <2> QED  BY <2>1
<1>12. EntryRun(from, data)
    BY <1>6, <1>11 DEF EntryRun, n
<1> QED  BY <1>12

-----------------------------------------------------------------------------
(* DATA blocks: that what is built is read.                                *)

\* An id is its page and its low byte, which is not one of the special bytes.
LEMMA IdParts ==
    ASSUME NEW id \in Ids
    PROVE  /\ id \in Word /\ HiByte(id) \in Byte /\ LoByte(id) \in Byte
           /\ LoByte(id) \notin {252, 253, 254, 255}
           /\ Id(HiByte(id), LoByte(id)) = id
<1>1. id \in Nat /\ id < 65536 /\ id % 256 \in Nat /\ id % 256 < 252
    <2>1. id \in Nat /\ id < 65536 /\ ~ (id % 256 >= 252)
        BY DEF Ids, isReservedLowByte, LoByte
    <2>2. id % 256 \in Nat
        BY <2>1
    <2> DEFINE r == id % 256
    <2> HIDE DEF r
    <2>3. r \in Nat /\ ~ (r >= 252) => r < 252
        OBVIOUS
    <2> QED  BY <2>1, <2>2, <2>3 DEF r
<1>2. id \div 256 \in Nat /\ id \div 256 < 256 /\ 256 * (id \div 256) + (id % 256) = id
    BY <1>1
<1> QED  BY <1>1, <1>2 DEF Word, Byte, HiByte, LoByte, Id

\* What a piece of a block says.
Says(id, piece, e) ==
    \/ piece = <<>>
    \/ piece = <<253, LoByte(id)>> /\ e = Absent(id)
    \/ \E raw \in Seq(Byte) : /\ raw # <<>> /\ Len(raw) <= 255
                              /\ piece = Sized(id, raw) /\ e = Valued(id, raw)

\* Each piece says its entry.
Told(ids, pieces, e) ==
    \A k \in 1 .. Len(ids) : ids[k] \in Ids /\ Says(ids[k], pieces[k], e[k])

\* The bytes of a value's piece.
LEMMA SizedBytes ==
    ASSUME NEW id \in Ids, NEW raw \in Seq(Byte), raw # <<>>, Len(raw) <= 255
    PROVE  /\ Sized(id, raw) \in Seq(Byte)
           /\ Len(raw) = 1 =>
                /\ Len(Sized(id, raw)) = 2
                /\ \A s : \A a \in Nat : Bears(s, a, Sized(id, raw)) =>
                     s[a + 1] = LoByte(id) /\ s[a + 2] = raw[1]
           /\ Len(raw) # 1 =>
                /\ Len(Sized(id, raw)) = 3 + Len(raw)
                /\ \A s : \A a \in Nat : Bears(s, a, Sized(id, raw)) =>
                     /\ s[a + 1] = 254 /\ s[a + 2] = Len(raw) /\ s[a + 3] = LoByte(id)
                     /\ Bears(s, a + 3, raw)
<1>1. LoByte(id) \in Byte /\ Len(raw) \in Nat
    BY IdParts
<1>2. CASE Len(raw) = 1
    <2> DEFINE l == <<LoByte(id)>>
    <2>1. Sized(id, raw) = l \o raw
        BY <1>2 DEF Sized
    <2>2. l \in Seq(Byte) /\ Len(l) = 1 /\ \A s : \A a \in Nat : Bears(s, a, l) => s[a + 1] = LoByte(id)
        BY <1>1, Single
    <2> HIDE DEF l
    <2>3. Sized(id, raw) \in Seq(Byte) /\ Len(Sized(id, raw)) = 2
        <3>1. l \o raw \in Seq(Byte) /\ Len(l \o raw) = Len(l) + Len(raw)
            BY <2>2, Joined
        <3> QED  BY <1>2, <2>1, <2>2, <3>1
    <2>4. ASSUME NEW s, NEW a \in Nat, Bears(s, a, Sized(id, raw))
          PROVE  s[a + 1] = LoByte(id) /\ s[a + 2] = raw[1]
        <3>1. Bears(s, a, l) /\ Bears(s, a + 1, raw)
            <4>1. Bears(s, a, l \o raw)
                BY <2>1, <2>4
            <4> QED  BY <2>2, <4>1, Split
        <3>2. s[a + 1 + 1] = raw[1]
            BY <1>2, <3>1 DEF Bears
        <3>3. s[a + 2] = raw[1]
            BY <3>2
        <3> QED  BY <2>2, <3>1, <3>3
    <2> QED  BY <1>2, <2>3, <2>4
<1>3. CASE Len(raw) # 1
    <2> DEFINE l == <<254, Len(raw), LoByte(id)>>
    <2>1. Sized(id, raw) = l \o raw
        BY <1>3 DEF Sized
    <2>2. /\ l \in Seq(Byte) /\ Len(l) = 3
          /\ \A s : \A a \in Nat : Bears(s, a, l) =>
               s[a + 1] = 254 /\ s[a + 2] = Len(raw) /\ s[a + 3] = LoByte(id)
        <3>1. 254 \in Byte /\ Len(raw) \in Byte
            <4> DEFINE w == Len(raw)
            <4>1. w \in Nat /\ w <= 255
                BY <1>1
            <4> HIDE DEF w
            <4>2. 254 \in Byte /\ w \in Byte
                BY <4>1 DEF Byte
            <4> QED  BY <4>2 DEF w
        <3> DEFINE w == Len(raw)
                   lo == LoByte(id)
        <3>2. 254 \in Byte /\ w \in Byte /\ lo \in Byte
            BY <1>1, <3>1
        <3> HIDE DEF w, lo
        <3>3. <<254, w, lo>> \in Seq(Byte) /\ Len(<<254, w, lo>>) = 3
            BY <3>2
        <3>4. \A s : \A a \in Nat : Bears(s, a, <<254, w, lo>>) =>
                 s[a + 1] = 254 /\ s[a + 2] = w /\ s[a + 3] = lo
            BY <3>3 DEF Bears
        <3> QED  BY <3>3, <3>4 DEF w, lo
    <2> HIDE DEF l
    <2>3. l \in Seq(Byte) /\ Len(l) = 3
        BY <2>2
    <2>4. Sized(id, raw) \in Seq(Byte) /\ Len(Sized(id, raw)) = 3 + Len(raw)
        <3>1. l \o raw \in Seq(Byte) /\ Len(l \o raw) = Len(l) + Len(raw)
            BY <2>3, Joined
        <3> QED  BY <2>1, <2>3, <3>1
    <2>5. ASSUME NEW s, NEW a \in Nat, Bears(s, a, Sized(id, raw))
          PROVE  /\ s[a + 1] = 254 /\ s[a + 2] = Len(raw) /\ s[a + 3] = LoByte(id)
                 /\ Bears(s, a + 3, raw)
        <3>1. Bears(s, a, l) /\ Bears(s, a + 3, raw)
            <4>1. Bears(s, a, l \o raw)
                BY <2>1, <2>5
            <4> QED  BY <2>3, <4>1, Split
        <3> QED  BY <2>2, <3>1
    <2> QED  BY <1>3, <2>4, <2>5
<1> QED  BY <1>2, <1>3

\* Pieces that say entries are byte strings.
LEMMA ToldBytes ==
    ASSUME NEW ids \in Seq(Word), NEW pieces, NEW e, Told(ids, pieces, e)
    PROVE  /\ Pieces(ids, pieces)
           /\ \A k \in 1 .. Len(ids) : pieces[k] # <<>> => e[k] \in Entries /\ e[k].id = ids[k]
<1> SUFFICES ASSUME NEW k \in 1 .. Len(ids)
             PROVE  /\ pieces[k] \in Seq(Byte)
                    /\ pieces[k] # <<>> => e[k] \in Entries /\ e[k].id = ids[k]
    BY DEF Pieces
<1> DEFINE id == ids[k]
           piece == pieces[k]
           x == e[k]
<1>1. id \in Ids /\ Says(id, piece, x)
    BY DEF Told
<1> HIDE DEF id, piece, x
<1>2. id \in Word /\ LoByte(id) \in Byte
    BY <1>1, IdParts
<1>3. \A raw : Absent(id).id = id /\ Valued(id, raw).id = id
    BY DEF Absent, Valued, Entry
<1>4. piece \in Seq(Byte)
    <2>1. CASE piece = <<>>
        BY <2>1
    <2>2. CASE piece = <<253, LoByte(id)>>
        <3>1. 253 \in Byte
            BY DEF Byte
        <3> QED  BY <1>2, <2>2, <3>1, Single
    <2>3. CASE \E raw \in Seq(Byte) : raw # <<>> /\ Len(raw) <= 255 /\ piece = Sized(id, raw)
        BY <1>1, <2>3, SizedBytes
    <2> QED  BY <1>1, <2>1, <2>2, <2>3 DEF Says
<1>5. piece # <<>> => x \in Entries /\ x.id = id
    <2>1. <<>> \in Seq(Byte)
        OBVIOUS
    <2> QED  BY <1>1, <1>2, <1>3, <2>1, EntryKinds DEF Says
<1> QED  BY <1>4, <1>5 DEF id, piece, x

\* The result tells the entries of the pieces after the k-th, and no others.
Tells(r, e, pieces, k, n) ==
    /\ r \in Results /\ r.ok
    /\ \A i \in 1 .. Len(r.entries) :
         \E j \in k + 1 .. n : pieces[j] # <<>> /\ r.entries[i] = e[j]
    /\ \A j \in k + 1 .. n : pieces[j] # <<>> =>
         \E i \in 1 .. Len(r.entries) : r.entries[i] = e[j]

\* A sequence with an element before it.
LEMMA Prefixed ==
    ASSUME NEW S, NEW x \in S, NEW rs \in Seq(S)
    PROVE  /\ <<x>> \o rs \in Seq(S) /\ Len(<<x>> \o rs) = Len(rs) + 1 /\ Len(rs) \in Nat
           /\ (<<x>> \o rs)[1] = x /\ \A i \in 1 .. Len(rs) : (<<x>> \o rs)[i + 1] = rs[i]
<1>1. <<x>> \in Seq(S) /\ Len(<<x>>) = 1 /\ <<x>>[1] = x
    OBVIOUS
<1>2. \A i \in 1 .. 1 + Len(rs) :
        (<<x>> \o rs)[i] = IF i <= 1 THEN <<x>>[i] ELSE rs[i - 1]
    BY <1>1, ConcatProperties
<1>3. <<x>> \o rs \in Seq(S) /\ Len(<<x>> \o rs) = 1 + Len(rs) /\ Len(rs) \in Nat
    BY <1>1, Joined
<1>4. (<<x>> \o rs)[1] = x
    BY <1>1, <1>2, <1>3
<1>5. \A i \in 1 .. Len(rs) : (<<x>> \o rs)[i + 1] = rs[i]
    <2> TAKE i \in 1 .. Len(rs)
    <2>1. i + 1 \in 1 .. 1 + Len(rs) /\ ~ (i + 1 <= 1) /\ i + 1 - 1 = i
        BY <1>3
    <2> QED  BY <1>2, <2>1
<1> QED  BY <1>3, <1>4, <1>5

\* With the entry of the k-th piece before it, a result tells that too.
LEMMA ThenTells ==
    ASSUME NEW r, NEW e, NEW pieces, NEW n \in Nat, NEW k \in 1 .. n, Tells(r, e, pieces, k, n),
           pieces[k] # <<>>, e[k] \in Entries
    PROVE  Tells(Then(e[k], r), e, pieces, k - 1, n)
<1> DEFINE x == e[k]
           es == <<x>> \o r.entries
           t == Then(x, r)
<1>1. r \in Results /\ r.ok
    BY DEF Tells
<1>2. r.entries \in Seq(Entries)
    BY <1>1 DEF Results
<1>3. t \in Results
    BY <1>1, ThenResult
<1>4. t.ok /\ t.entries = es
    BY <1>1 DEF Then, Results
<1>5. es \in Seq(Entries) /\ Len(es) = Len(r.entries) + 1 /\ Len(r.entries) \in Nat
      /\ es[1] = x /\ \A i \in 1 .. Len(r.entries) : es[i + 1] = r.entries[i]
    <2>1. x \in Entries
        OBVIOUS
    <2> DEFINE rs == r.entries
    <2>2. rs \in Seq(Entries)
        BY <1>2
    <2> HIDE DEF x, rs
    <2>3. /\ <<x>> \o rs \in Seq(Entries) /\ Len(<<x>> \o rs) = Len(rs) + 1 /\ Len(rs) \in Nat
          /\ (<<x>> \o rs)[1] = x /\ \A i \in 1 .. Len(rs) : (<<x>> \o rs)[i + 1] = rs[i]
        BY <2>1, <2>2, Prefixed
    <2> QED  BY <2>3 DEF rs
<1> HIDE DEF x, es, t
<1>6. ASSUME NEW i \in 1 .. Len(es)
      PROVE  \E j \in k - 1 + 1 .. n : pieces[j] # <<>> /\ es[i] = e[j]
    <2>1. CASE i = 1
        <3>1. k \in k - 1 + 1 .. n
            OBVIOUS
        <3> QED  BY <1>5, <2>1, <3>1 DEF x
    <2>2. CASE i # 1
        <3> DEFINE h == i - 1
        <3>1. h \in 1 .. Len(r.entries) /\ i = h + 1
            BY <1>5, <2>2
        <3> HIDE DEF h
        <3>2. es[i] = r.entries[h]
            BY <1>5, <3>1
        <3>3. PICK j \in k + 1 .. n : pieces[j] # <<>> /\ r.entries[h] = e[j]
            BY <3>1 DEF Tells
        <3>4. j \in k - 1 + 1 .. n
            OBVIOUS
        <3> QED  BY <3>2, <3>3, <3>4
    <2> QED  BY <2>1, <2>2
<1>7. ASSUME NEW j \in k - 1 + 1 .. n, pieces[j] # <<>>
      PROVE  \E i \in 1 .. Len(es) : es[i] = e[j]
    <2>1. CASE j = k
        <3>1. 1 \in 1 .. Len(es)
            BY <1>5
        <3> QED  BY <1>5, <2>1, <3>1 DEF x
    <2>2. CASE j # k
        <3>1. j \in k + 1 .. n
            BY <2>2
        <3>2. PICK i \in 1 .. Len(r.entries) : r.entries[i] = e[j]
            BY <1>7, <3>1 DEF Tells
        <3>3. i + 1 \in 1 .. Len(es) /\ es[i + 1] = e[j]
            BY <1>5, <3>2
        <3> QED  BY <3>3
    <2> QED  BY <2>1, <2>2
<1>8. Tells(t, e, pieces, k - 1, n)
    BY <1>3, <1>4, <1>6, <1>7 DEF Tells
<1> QED  BY <1>8 DEF t, x

\* From the beginning of a piece to its end, the parser has read its entry.
LEMMA PieceRead ==
    ASSUME NEW data \in Seq(Byte), NEW f, EntryRun(f, data), NEW id \in Ids, NEW piece, NEW e,
           Says(id, piece, e), piece # <<>>, NEW q \in Nat, Bears(data, q, piece),
           q + Len(piece) <= Len(data)
    PROVE  f[q + 1][HiByte(id)] = Then(e, f[q + Len(piece) + 1][HiByte(id)])
<1> DEFINE hi == HiByte(id)
           lo == LoByte(id)
           n == Len(data)
<1>1. hi \in Byte /\ lo \in Byte /\ lo \notin {252, 253, 254, 255} /\ Id(hi, lo) = id
    BY IdParts
<1>2. n \in Nat /\ n \in Int /\ q + 1 \in Int
    OBVIOUS
<1> HIDE DEF hi, lo
<1>3. q < n => f[q + 1][hi] = EntryStep(data, f, q + 1, hi)
    <2>1. q < n => q + 1 \in 1 .. n + 1
        BY <1>2
    <2> QED  BY <1>1, <2>1 DEF EntryRun
<1>4. CASE piece = <<253, lo>> /\ e = Absent(id)
    <2>1. 253 \in Byte
        BY DEF Byte
    <2>2. Len(piece) = 2 /\ data[q + 1] = 253 /\ data[q + 2] = lo
        <3> DEFINE t == <<253, lo>>
        <3>1. t = piece /\ Bears(data, q, t)
            BY <1>4
        <3>2. Len(t) = 2 /\ t[1] = 253 /\ t[2] = lo
            OBVIOUS
        <3> HIDE DEF t
        <3>3. data[q + 1] = t[1] /\ data[q + 2] = t[2]
            BY <3>1, <3>2 DEF Bears
        <3> QED  BY <3>1, <3>2, <3>3
    <2> DEFINE i == q + 1
    <2>3. i \in Int /\ i < Len(data) /\ data[i] = 253 /\ data[i + 1] = lo /\ i + 2 = q + Len(piece) + 1
          /\ q < n
        <3>1. q + 2 <= n
            BY <2>2
        <3>2. i + 1 = q + 2 /\ i + 2 = q + 3
            OBVIOUS
        <3> QED  BY <1>2, <2>2, <3>1, <3>2
    <2>4. f[i][hi] = EntryStep(data, f, i, hi)
        BY <1>3, <2>3
    <2> HIDE DEF i
    <2>5. EntryStep(data, f, i, hi) = Then(Absent(Id(hi, data[i + 1])), f[i + 2][hi])
        BY <1>2, <2>3, EntryStepNone
    <2>6. f[i][hi] = Then(e, f[q + Len(piece) + 1][hi])
        BY <1>1, <1>4, <2>3, <2>4, <2>5
    <2> QED  BY <2>6 DEF i, hi
<1>5. ASSUME NEW raw \in Seq(Byte), raw # <<>>, Len(raw) <= 255,
             piece = Sized(id, raw), e = Valued(id, raw)
      PROVE  f[q + 1][hi] = Then(e, f[q + Len(piece) + 1][hi])
    <2> DEFINE i == q + 1
    <2>1. Len(raw) \in Nat
        OBVIOUS
    <2>2. CASE Len(raw) = 1
        <3>1. Len(piece) = 2 /\ data[q + 1] = lo /\ <<data[q + 2]>> = raw
            <4> DEFINE t == Sized(id, raw)
            <4>1. t = piece /\ Bears(data, q, t)
                BY <1>5
            <4>2. /\ Len(t) = 2
                  /\ \A s : \A a \in Nat : Bears(s, a, t) => s[a + 1] = LoByte(id) /\ s[a + 2] = raw[1]
                BY <1>5, <2>2, SizedBytes
            <4> HIDE DEF t
            <4>3. Len(t) = 2 /\ data[q + 1] = LoByte(id) /\ data[q + 2] = raw[1]
                BY <4>1, <4>2
            <4>4. raw = <<raw[1]>>
                BY <2>2
            <4> QED  BY <4>1, <4>3, <4>4 DEF lo
        <3>2. i \in Int /\ i < Len(data) /\ data[i] = lo /\ <<data[i + 1]>> = raw
              /\ i + 2 = q + Len(piece) + 1 /\ q < n
            <4>1. q + 2 <= n
                BY <3>1
            <4>2. i + 1 = q + 2 /\ i + 2 = q + 3
                OBVIOUS
            <4> QED  BY <1>2, <3>1, <4>1, <4>2
        <3>3. f[i][hi] = EntryStep(data, f, i, hi)
            BY <1>3, <3>2
        <3> HIDE DEF i
        <3>4. OneAt(data, i, raw)
            BY <1>1, <3>2 DEF OneAt
        <3>5. EntryStep(data, f, i, hi) = Then(Valued(Id(hi, data[i]), raw), f[i + 2][hi])
            <4>1. i \in Int /\ Len(data) \in Int
                BY <1>2, <3>2
            <4> QED  BY <3>4, <4>1, EntryStepOne
        <3>6. f[i][hi] = Then(e, f[q + Len(piece) + 1][hi])
            BY <1>1, <1>5, <3>2, <3>3, <3>5
        <3> QED  BY <3>6 DEF i
    <2>3. CASE Len(raw) # 1
        <3> DEFINE size == Len(raw)
        <3>1. /\ Len(piece) = 3 + size
              /\ data[q + 1] = 254 /\ data[q + 2] = size /\ data[q + 3] = lo
              /\ Bears(data, q + 3, raw)
            <4> DEFINE t == Sized(id, raw)
            <4>1. t = piece /\ Bears(data, q, t)
                BY <1>5
            <4>2. /\ Len(t) = 3 + Len(raw)
                  /\ \A s : \A a \in Nat : Bears(s, a, t) =>
                       /\ s[a + 1] = 254 /\ s[a + 2] = Len(raw) /\ s[a + 3] = lo
                       /\ Bears(s, a + 3, raw)
                BY <1>5, <2>3, SizedBytes DEF lo
            <4> HIDE DEF t
            <4> QED  BY <4>1, <4>2
        <3>2. size \in Nat /\ size \in Int
            BY <2>1
        <3>3. SubSeq(data, q + 3 + 1, q + 3 + Len(raw)) = raw
            <4>1. q + 3 \in Nat
                OBVIOUS
            <4> QED  BY <3>1, <4>1, Cut
        <3>4. /\ i \in Int /\ data[i] = 254 /\ size = data[i + 1] /\ data[i + 2] = lo
              /\ i + 2 <= Len(data) /\ i + 2 + size <= Len(data)
              /\ i + 3 = q + 3 + 1 /\ i + 2 + size = q + 3 + Len(raw)
              /\ i + 3 + size = q + Len(piece) + 1 /\ q < n
            <4>1. q + (3 + size) <= n
                BY <3>1
            <4>2. i + 1 = q + 2 /\ i + 2 = q + 3 /\ i + 3 = q + 3 + 1
                OBVIOUS
            <4> HIDE DEF i
            <4>3. i + 2 + size = q + 3 + size /\ i + 3 + size = q + (3 + size) + 1
                BY <3>2, <4>2
            <4> QED  BY <1>2, <3>1, <3>2, <4>1, <4>2, <4>3 DEF i
        <3>5. f[i][hi] = EntryStep(data, f, i, hi)
            BY <1>3, <3>4
        <3> HIDE DEF i
        <3>6. SizedAt(data, i, size, raw)
            BY <3>3, <3>4 DEF SizedAt
        <3> HIDE DEF size
        <3>7. EntryStep(data, f, i, hi) = Then(Valued(Id(hi, data[i + 2]), raw), f[i + 3 + size][hi])
            <4>1. i \in Int /\ Len(data) \in Int
                BY <1>2, <3>4
            <4> QED  BY <3>2, <3>6, <4>1, EntryStepSized
        <3>8. f[i][hi] = Then(e, f[q + Len(piece) + 1][hi])
            BY <1>1, <1>5, <3>4, <3>5, <3>7
        <3> QED  BY <3>8 DEF i
    <2> QED  BY <2>2, <2>3
<1> QED  BY <1>4, <1>5 DEF Says, hi, lo

\* The bytes of a page switch.
LEMMA SwitchBears ==
    ASSUME NEW ids, NEW k, NEW data \in Seq(Byte), NEW p \in Nat,
           Bears(data, p, Switch(ids, k)), Page(ids, k) # Page(ids, k - 1)
    PROVE  /\ Len(Switch(ids, k)) = 2
           /\ data[p + 1] = 255 /\ data[p + 2] = Page(ids, k)
<1> DEFINE hi == Page(ids, k)
           t == <<255, hi>>
<1>1. Switch(ids, k) = t
    BY DEF Switch
<1>2. Len(t) = 2 /\ t[1] = 255 /\ t[2] = hi
    OBVIOUS
<1> HIDE DEF t, hi
<1>3. data[p + 1] = t[1] /\ data[p + 2] = t[2]
    BY <1>1, <1>2 DEF Bears
<1> QED  BY <1>1, <1>2, <1>3 DEF hi

\* From a page switch, or none, to the piece after it the parser has the page.
LEMMA SwitchRead ==
    ASSUME NEW ids, NEW k, NEW data \in Seq(Byte), NEW f, EntryRun(f, data), NEW p \in Nat,
           Bears(data, p, Switch(ids, k)), p + Len(Switch(ids, k)) <= Len(data),
           Page(ids, k) \in Byte, Page(ids, k - 1) \in Byte
    PROVE  f[p + 1][Page(ids, k - 1)] = f[p + Len(Switch(ids, k)) + 1][Page(ids, k)]
<1> DEFINE hi == Page(ids, k)
           was == Page(ids, k - 1)
           sw == Switch(ids, k)
<1>1. CASE hi = was
    <2>1. sw = <<>>
        BY <1>1 DEF Switch
    <2>2. Len(sw) = 0
        BY <2>1
    <2> HIDE DEF sw, hi, was
    <2>3. p + Len(sw) + 1 = p + 1
        BY <2>2
    <2>4. f[p + 1][was] = f[p + Len(sw) + 1][hi]
        BY <1>1, <2>3
    <2> QED  BY <2>4 DEF sw, hi, was
<1>2. CASE hi # was
    <2>1. Len(sw) = 2 /\ data[p + 1] = 255 /\ data[p + 2] = hi
        BY <1>2, SwitchBears
    <2> DEFINE i == p + 1
    <2>2. /\ i \in Int /\ Len(data) \in Int /\ i < Len(data) /\ i \in 1 .. Len(data) + 1
          /\ data[i] = 255 /\ data[i + 1] = hi /\ i + 2 = p + Len(sw) + 1
        <3>1. Len(data) \in Nat /\ p + 2 <= Len(data)
            BY <2>1
        <3>2. i + 1 = p + 2 /\ i + 2 = p + 2 + 1
            OBVIOUS
        <3> QED  BY <2>1, <3>1, <3>2
    <2> HIDE DEF i, sw
    <2>3. f[i][was] = EntryStep(data, f, i, was)
        BY <2>2 DEF EntryRun
    <2> HIDE DEF was, hi
    <2>4. EntryStep(data, f, i, was) = f[i + 2][data[i + 1]]
        BY <2>2, EntryStepSwitch
    <2>5. f[i][was] = f[p + Len(sw) + 1][hi]
        BY <2>2, <2>3, <2>4
    <2> QED  BY <2>5 DEF i, sw, was, hi
<1> QED  BY <1>1, <1>2

\* A block the builders made is parsed into the entries it was made of.
LEMMA BlockRead ==
    ASSUME NEW ids \in Seq(Word), NEW pieces, NEW e, Told(ids, pieces, e)
    PROVE  /\ Pages(ids, pieces) \in Seq(Byte)
           /\ Tells(ParseDataBlock(Pages(ids, pieces)), e, pieces, 0, Len(ids))
<1> DEFINE n == Len(ids)
           data == Pages(ids, pieces)
<1>1. n \in Nat
    OBVIOUS
<1>2. Pieces(ids, pieces)
    BY ToldBytes
<1>3. PICK pos : Laid(data, pos, ids, pieces)
    BY <1>2, PagesLaid
<1>4. data \in Seq(Byte)
    BY <1>3 DEF Laid
<1>5. PICK f : EntryRun(f, data)
    BY <1>4, ParseDataBlockRuns
<1> HIDE DEF data
<1>6. \A k \in 0 .. n : pos[k] \in Nat /\ pos[k] <= Len(data)
    BY <1>3 DEF Laid
<1>7. pos[0] = 0 /\ pos[n] = Len(data) /\ Len(data) \in Nat
    BY <1>3, <1>4 DEF Laid
<1>8. \A k \in 1 .. n : Page(ids, k) \in Byte /\ Page(ids, k - 1) \in Byte
    BY SwitchBytes
<1> DEFINE At(k) == f[pos[k] + 1][Page(ids, k)]
<1>9. Tells(At(n), e, pieces, n, n)
    <2> DEFINE i == Len(data) + 1
               r == [ok |-> TRUE, entries |-> <<>>]
    <2>1. Page(ids, n) \in Byte
        <3>1. CASE n = 0
            BY <3>1 DEF Page, Byte
        <3>2. CASE n # 0
            <4>1. n \in 1 .. n
                BY <1>1, <3>2
            <4> QED  BY <1>8, <4>1
        <3> QED  BY <3>1, <3>2
    <2>2. i \in Int /\ Len(data) \in Int /\ i >= Len(data) /\ i # Len(data) /\ i \in 1 .. Len(data) + 1
        BY <1>7
    <2> HIDE DEF i, n
    <2>3. f[i][Page(ids, n)] = EntryStep(data, f, i, Page(ids, n))
        BY <1>5, <2>1, <2>2 DEF EntryRun
    <2>4. EntryStep(data, f, i, Page(ids, n)) = r
        BY <2>2, EntryStepEnd
    <2>5. At(n) = r
        BY <1>7, <2>3, <2>4 DEF i
    <2>6. Tells(r, e, pieces, n, n)
        <3>1. r \in Results /\ r.ok /\ Len(r.entries) = 0
            BY DEF Results
        <3>2. \A j \in n + 1 .. n : FALSE
            BY <1>1 DEF n
        <3> HIDE DEF r
        <3> QED  BY <3>1, <3>2 DEF Tells
    <2> QED  BY <2>5, <2>6
<1>10. ASSUME NEW k \in 1 .. n, Tells(At(k), e, pieces, k, n)
       PROVE  Tells(At(k - 1), e, pieces, k - 1, n)
    <2> DEFINE p == pos[k - 1]
               sw == Switch(ids, k)
               q == p + Len(sw)
               piece == pieces[k]
    <2>1. k \in 0 .. n /\ k - 1 \in 0 .. n
        BY <1>1
    <2>2. /\ Bears(data, p, sw) /\ Bears(data, q, piece)
          /\ pos[k] = q + Len(piece)
        BY <1>3 DEF Laid
    <2>3. sw \in Seq(Byte) /\ piece \in Seq(Byte)
        BY <1>2, SwitchBytes DEF Pieces
    <2>4. Len(sw) \in Nat /\ Len(piece) \in Nat
        BY <2>3
    <2>5. p \in Nat /\ pos[k] <= Len(data)
        BY <1>6, <2>1
    <2> HIDE DEF p, sw, piece
    <2>6. q \in Nat /\ q <= Len(data) /\ q + Len(piece) <= Len(data)
        BY <1>7, <2>2, <2>4, <2>5
    <2>7. At(k - 1) = f[q + 1][Page(ids, k)]
        <3>1. p + Len(sw) <= Len(data)
            BY <2>6
        <3>2. f[p + 1][Page(ids, k - 1)] = f[p + Len(sw) + 1][Page(ids, k)]
            BY <1>4, <1>5, <1>8, <2>2, <2>5, <3>1, SwitchRead DEF sw
        <3> QED  BY <3>2 DEF p
    <2> HIDE DEF q
    <2>8. CASE piece = <<>>
        <3>1. pos[k] = q
            <4>1. Len(piece) = 0
                BY <2>8
            <4> QED  BY <2>2, <2>6, <4>1
        <3>2. At(k - 1) = At(k)
            BY <2>7, <3>1
        <3> HIDE DEF At
        <3>3. \A j \in k - 1 + 1 .. n : pieces[j] # <<>> => j \in k + 1 .. n
            BY <2>8 DEF piece
        <3>4. \A j \in k + 1 .. n : j \in k - 1 + 1 .. n
            OBVIOUS
        <3> QED  BY <1>10, <3>2, <3>3, <3>4 DEF Tells
    <2>9. CASE piece # <<>>
        <3>1. ids[k] \in Ids /\ Says(ids[k], piece, e[k])
            BY DEF Told, piece
        <3>2. Page(ids, k) = HiByte(ids[k])
            BY DEF Page
        <3>3. f[q + 1][HiByte(ids[k])] = Then(e[k], f[q + Len(piece) + 1][HiByte(ids[k])])
            BY <1>4, <1>5, <2>2, <2>6, <2>9, <3>1, PieceRead
        <3>4. At(k - 1) = Then(e[k], At(k))
            BY <2>2, <2>7, <3>2, <3>3
        <3>5. e[k] \in Entries
            BY <2>9, ToldBytes DEF piece
        <3> HIDE DEF At
        <3> QED  BY <1>1, <1>10, <2>9, <3>4, <3>5, ThenTells DEF piece
    <2> QED  BY <2>8, <2>9
<1> HIDE DEF At
<1> DEFINE T == {m \in Nat : m \in 0 .. n => Tells(At(n - m), e, pieces, n - m, n)}
<1>11. 0 \in T
    <2>1. n - 0 = n
        BY <1>1
    <2> QED  BY <1>9, <2>1
<1>12. ASSUME NEW m \in Nat, m \in T
       PROVE  m + 1 \in T
    <2> SUFFICES ASSUME m + 1 \in 0 .. n
                 PROVE  Tells(At(n - (m + 1)), e, pieces, n - (m + 1), n)
        OBVIOUS
    <2>1. m \in 0 .. n /\ n - m \in 1 .. n /\ n - m - 1 = n - (m + 1)
        BY <1>1
    <2>2. Tells(At(n - m), e, pieces, n - m, n)
        BY <1>12, <2>1
    <2>3. Tells(At(n - m - 1), e, pieces, n - m - 1, n)
        BY <1>10, <2>1, <2>2
    <2> QED  BY <2>1, <2>3
<1>13. Nat \subseteq T
    <2> HIDE DEF T
    <2> QED  BY <1>11, <1>12, Induct
<1>14. Tells(At(0), e, pieces, 0, n)
    <2>1. n \in T /\ n - n = 0 /\ n \in 0 .. n
        BY <1>1, <1>13
    <2> QED  BY <2>1
<1>15. At(0) = ParseDataBlock(data)
    <2>1. Page(ids, 0) = 0 /\ pos[0] + 1 = 1
        BY <1>7 DEF Page
    <2>2. ParseDataBlock(data) = f[1][0]
        BY <1>5 DEF EntryRun
    <2> QED  BY <2>1, <2>2 DEF At
<1> QED  BY <1>4, <1>14, <1>15 DEF data

\* The sequence names the ids after the k-th, and no others.
Names(r, ids, k) ==
    /\ r \in Seq(Word)
    /\ \A i \in 1 .. Len(r) : \E j \in k + 1 .. Len(ids) : r[i] = ids[j]
    /\ \A j \in k + 1 .. Len(ids) : \E i \in 1 .. Len(r) : r[i] = ids[j]

\* With the k-th id before it, the sequence names that too.
LEMMA NameTold ==
    ASSUME NEW ids \in Seq(Word), NEW k \in 1 .. Len(ids), NEW r, Names(r, ids, k)
    PROVE  Names(<<ids[k]>> \o r, ids, k - 1)
<1> DEFINE n == Len(ids)
           x == ids[k]
           es == <<x>> \o r
<1>1. n \in Nat /\ k \in 1 .. n /\ x \in Word
    OBVIOUS
<1>2. /\ r \in Seq(Word)
      /\ \A i \in 1 .. Len(r) : \E j \in k + 1 .. n : r[i] = ids[j]
      /\ \A j \in k + 1 .. n : \E i \in 1 .. Len(r) : r[i] = ids[j]
    BY DEF Names
<1>3. /\ es \in Seq(Word) /\ Len(es) = Len(r) + 1 /\ Len(r) \in Nat
      /\ es[1] = x /\ \A i \in 1 .. Len(r) : es[i + 1] = r[i]
    <2> HIDE DEF x
    <2> QED  BY <1>1, <1>2, Prefixed
<1> HIDE DEF n, x, es
<1>4. ASSUME NEW i \in 1 .. Len(es)
      PROVE  \E j \in k - 1 + 1 .. n : es[i] = ids[j]
    <2>1. CASE i = 1
        <3>1. k \in k - 1 + 1 .. n
            BY <1>1
        <3> QED  BY <1>3, <2>1, <3>1 DEF x
    <2>2. CASE i # 1
        <3> DEFINE h == i - 1
        <3>1. h \in 1 .. Len(r) /\ i = h + 1
            BY <1>3, <2>2
        <3> HIDE DEF h
        <3>2. PICK j \in k + 1 .. n : r[h] = ids[j]
            BY <1>2, <3>1
        <3>3. j \in k - 1 + 1 .. n
            BY <1>1
        <3> QED  BY <1>3, <3>1, <3>2, <3>3
    <2> QED  BY <2>1, <2>2
<1>5. ASSUME NEW j \in k - 1 + 1 .. n
      PROVE  \E i \in 1 .. Len(es) : es[i] = ids[j]
    <2>1. CASE j = k
        <3>1. 1 \in 1 .. Len(es)
            BY <1>3
        <3> QED  BY <1>3, <2>1, <3>1 DEF x
    <2>2. CASE j # k
        <3>1. j \in k + 1 .. n
            BY <1>1, <2>2
        <3>2. PICK i \in 1 .. Len(r) : r[i] = ids[j]
            BY <1>2, <3>1
        <3>3. i + 1 \in 1 .. Len(es) /\ es[i + 1] = ids[j]
            BY <1>3, <3>2
        <3> QED  BY <3>3
    <2> QED  BY <2>1, <2>2
<1>6. Names(es, ids, k - 1)
    BY <1>3, <1>4, <1>5 DEF Names, n
<1> QED  BY <1>6 DEF es, x

\* parseReadDataBlock at a page switch.
LEMMA ReadStepSwitch ==
    ASSUME NEW data, NEW f, NEW i \in Int, NEW hi, Len(data) \in Int, i < Len(data),
           data[i] = 255
    PROVE  ReadStep(data, f, i, hi) = f[i + 2][data[i + 1]]
<1>1. ~ (i > Len(data)) /\ i # Len(data) /\ data[i] \in {252, 255}
    OBVIOUS
<1> QED  BY <1>1 DEF ReadStep

\* parseReadDataBlock at an id.
LEMMA ReadStepId ==
    ASSUME NEW data, NEW f, NEW i \in Int, NEW hi, Len(data) \in Int, i <= Len(data),
           data[i] \notin {252, 255}
    PROVE  ReadStep(data, f, i, hi) = <<Id(hi, data[i])>> \o f[i + 1][hi]
<1>1. ~ (i > Len(data))
    OBVIOUS
<1> QED  BY <1>1 DEF ReadStep, Id

\* From a page switch, or none, to the id after it the unit has the page.
LEMMA SwitchAsked ==
    ASSUME NEW ids, NEW k, NEW data \in Seq(Byte), NEW f, ReadRun(f, data), NEW p \in Nat,
           Bears(data, p, Switch(ids, k)), p + Len(Switch(ids, k)) <= Len(data),
           Page(ids, k) \in Byte, Page(ids, k - 1) \in Byte
    PROVE  f[p + 1][Page(ids, k - 1)] = f[p + Len(Switch(ids, k)) + 1][Page(ids, k)]
<1> DEFINE hi == Page(ids, k)
           was == Page(ids, k - 1)
           sw == Switch(ids, k)
<1>1. CASE hi = was
    <2>1. sw = <<>>
        BY <1>1 DEF Switch
    <2>2. Len(sw) = 0
        BY <2>1
    <2> HIDE DEF sw, hi, was
    <2>3. p + Len(sw) + 1 = p + 1
        BY <2>2
    <2>4. f[p + 1][was] = f[p + Len(sw) + 1][hi]
        BY <1>1, <2>3
    <2> QED  BY <2>4 DEF sw, hi, was
<1>2. CASE hi # was
    <2>1. Len(sw) = 2 /\ data[p + 1] = 255 /\ data[p + 2] = hi
        BY <1>2, SwitchBears
    <2> DEFINE i == p + 1
    <2>2. /\ i \in Int /\ Len(data) \in Int /\ i < Len(data) /\ i \in 1 .. Len(data) + 1
          /\ data[i] = 255 /\ data[i + 1] = hi /\ i + 2 = p + Len(sw) + 1
        <3>1. Len(data) \in Nat /\ p + 2 <= Len(data)
            BY <2>1
        <3>2. i + 1 = p + 2 /\ i + 2 = p + 2 + 1
            OBVIOUS
        <3> QED  BY <2>1, <3>1, <3>2
    <2> HIDE DEF i, sw
    <2>3. f[i][was] = ReadStep(data, f, i, was)
        BY <2>2 DEF ReadRun
    <2> HIDE DEF was, hi
    <2>4. ReadStep(data, f, i, was) = f[i + 2][data[i + 1]]
        BY <2>2, ReadStepSwitch
    <2>5. f[i][was] = f[p + Len(sw) + 1][hi]
        BY <2>2, <2>3, <2>4
    <2> QED  BY <2>5 DEF i, sw, was, hi
<1> QED  BY <1>1, <1>2

\* The unit reads the ids it was asked for.
LEMMA IdsRead ==
    ASSUME NEW ids \in Seq(Ids)
    PROVE  /\ BuildReadDataBlock(ids) \in Seq(Byte)
           /\ Names(parseReadDataBlock(BuildReadDataBlock(ids)), ids, 0)
<1> DEFINE n == Len(ids)
           pieces == [i \in DOMAIN ids |-> <<LoByte(ids[i])>>]
           data == Pages(ids, pieces)
<1>1. /\ n \in Nat /\ DOMAIN ids = 1 .. n /\ ids \in Seq(Word)
      /\ \A k \in 1 .. n : ids[k] \in Ids
    <2>1. \A k \in 1 .. n : ids[k] \in Ids
        BY ElementOfSeq
    <2>2. \A k \in 1 .. n : ids[k] \in Word
        BY <2>1, IdParts
    <2>3. n \in Nat /\ ids = [k \in 1 .. n |-> ids[k]]
        OBVIOUS
    <2> HIDE DEF n
    <2>4. ids \in [1 .. n -> Word]
        BY <2>2, <2>3
    <2>5. ids \in Seq(Word)
        BY <2>3, <2>4
    <2> QED  BY <2>1, <2>3, <2>5 DEF n
<1>2. \A k \in 1 .. n : pieces[k] = <<LoByte(ids[k])>>
    BY <1>1
<1> HIDE DEF n, pieces
<1>3. Pieces(ids, pieces)
    <2>1. \A k \in 1 .. n : LoByte(ids[k]) \in Byte
        BY <1>1, IdParts
    <2> QED  BY <1>2, <2>1, Single DEF Pieces, n
<1>4. PICK pos : Laid(data, pos, ids, pieces)
    BY <1>1, <1>3, PagesLaid
<1>5. data \in Seq(Byte)
    BY <1>4 DEF Laid
<1>6. PICK f : ReadRun(f, data)
    BY <1>5, ParseReadRuns
<1>7. data = BuildReadDataBlock(ids)
    BY DEF BuildReadDataBlock, pieces
<1> HIDE DEF data
<1>8. \A k \in 0 .. n : pos[k] \in Nat /\ pos[k] <= Len(data)
    BY <1>4 DEF Laid, n
<1>9. pos[0] = 0 /\ pos[n] = Len(data) /\ Len(data) \in Nat
    BY <1>4, <1>5 DEF Laid, n
<1>10. \A k \in 1 .. n : Page(ids, k) \in Byte /\ Page(ids, k - 1) \in Byte
    BY <1>1, SwitchBytes DEF n
<1> DEFINE At(k) == f[pos[k] + 1][Page(ids, k)]
<1>11. Names(At(n), ids, n)
    <2> DEFINE i == Len(data) + 1
    <2>1. Page(ids, n) \in Byte
        <3>1. CASE n = 0
            BY <3>1 DEF Page, Byte
        <3>2. CASE n # 0
            <4>1. n \in 1 .. n
                BY <1>1, <3>2
            <4> QED  BY <1>10, <4>1
        <3> QED  BY <3>1, <3>2
    <2>2. i > Len(data) /\ i \in 1 .. Len(data) + 1
        BY <1>9
    <2> HIDE DEF i
    <2>3. f[i][Page(ids, n)] = ReadStep(data, f, i, Page(ids, n))
        BY <1>6, <2>1, <2>2 DEF ReadRun
    <2>4. ReadStep(data, f, i, Page(ids, n)) = <<>>
        BY <2>2 DEF ReadStep
    <2>5. At(n) = <<>>
        BY <1>9, <2>3, <2>4 DEF i
    <2>6. \A j \in n + 1 .. Len(ids) : FALSE
        BY <1>1 DEF n
    <2>7. <<>> \in Seq(Word) /\ Len(<<>>) = 0
        OBVIOUS
    <2>8. Names(<<>>, ids, n)
        BY <2>6, <2>7 DEF Names
    <2> QED  BY <2>5, <2>8
<1>12. ASSUME NEW k \in 1 .. n, Names(At(k), ids, k)
       PROVE  Names(At(k - 1), ids, k - 1)
    <2> DEFINE p == pos[k - 1]
               sw == Switch(ids, k)
               q == p + Len(sw)
               lo == LoByte(ids[k])
    <2>1. k \in 0 .. n /\ k - 1 \in 0 .. n
        BY <1>1
    <2>2. /\ Bears(data, p, sw) /\ Bears(data, q, pieces[k])
          /\ pos[k] = q + Len(pieces[k])
        BY <1>4 DEF Laid, n
    <2>3. sw \in Seq(Byte)
        BY <1>1, SwitchBytes DEF n
    <2>4. Len(sw) \in Nat
        BY <2>3
    <2>5. p \in Nat /\ pos[k] <= Len(data)
        BY <1>8, <2>1
    <2> HIDE DEF p, sw
    <2>6. lo \in Byte /\ lo \notin {252, 255} /\ Id(HiByte(ids[k]), lo) = ids[k]
        BY <1>1, IdParts
    <2> HIDE DEF lo
    <2>7. Len(pieces[k]) = 1 /\ pieces[k][1] = lo
        <3>1. pieces[k] = <<lo>>
            BY <1>2 DEF lo
        <3>2. Len(<<lo>>) = 1 /\ <<lo>>[1] = lo
            OBVIOUS
        <3> QED  BY <3>1, <3>2
    <2>8. q \in Nat /\ pos[k] = q + 1 /\ q + 1 <= Len(data) /\ data[q + 1] = lo
        <3>1. q \in Nat
            BY <2>4, <2>5
        <3> HIDE DEF q
        <3>2. data[q + 1] = pieces[k][1]
            BY <2>2, <2>7 DEF Bears
        <3> QED  BY <1>9, <2>2, <2>5, <2>7, <3>1, <3>2
    <2>9. At(k - 1) = f[q + 1][Page(ids, k)]
        <3>1. p + Len(sw) <= Len(data)
            BY <1>9, <2>8
        <3>2. f[p + 1][Page(ids, k - 1)] = f[p + Len(sw) + 1][Page(ids, k)]
            BY <1>5, <1>6, <1>10, <2>2, <2>5, <3>1, SwitchAsked DEF sw
        <3> QED  BY <3>2 DEF p
    <2>10. q + 1 \in 1 .. Len(data) + 1 /\ q + 1 \in Int /\ Len(data) \in Int
        BY <1>9, <2>8
    <2> DEFINE i == q + 1
               hi == Page(ids, k)
    <2>11. f[i][hi] = ReadStep(data, f, i, hi)
        BY <1>6, <1>10, <2>10 DEF ReadRun
    <2>12. i <= Len(data) /\ data[i] \notin {252, 255} /\ i \in Int /\ Len(data) \in Int
        BY <2>6, <2>8, <2>10
    <2>13. data[i] = lo /\ i = pos[k]
        BY <2>8
    <2> HIDE DEF i, q
    <2>14. ReadStep(data, f, i, hi) = <<Id(hi, data[i])>> \o f[i + 1][hi]
        BY <2>12, ReadStepId
    <2>15. hi = HiByte(ids[k])
        BY DEF Page
    <2>16. At(k - 1) = <<ids[k]>> \o At(k)
        <3>1. At(k - 1) = f[i][hi] /\ At(k) = f[i + 1][hi]
            BY <2>9, <2>13 DEF i
        <3>2. Id(hi, data[i]) = ids[k]
            BY <2>6, <2>15, <2>13
        <3> HIDE DEF At
        <3> QED  BY <2>11, <2>14, <3>1, <3>2
    <2> HIDE DEF At
    <2> QED  BY <1>1, <1>12, <2>16, NameTold DEF n
<1> HIDE DEF At
<1> DEFINE T == {m \in Nat : m \in 0 .. n => Names(At(n - m), ids, n - m)}
<1>13. 0 \in T
    <2>1. n - 0 = n
        BY <1>1
    <2> QED  BY <1>11, <2>1
<1>14. ASSUME NEW m \in Nat, m \in T
       PROVE  m + 1 \in T
    <2> SUFFICES ASSUME m + 1 \in 0 .. n
                 PROVE  Names(At(n - (m + 1)), ids, n - (m + 1))
        OBVIOUS
    <2>1. m \in 0 .. n /\ n - m \in 1 .. n /\ n - m - 1 = n - (m + 1)
        BY <1>1
    <2>2. Names(At(n - m), ids, n - m)
        BY <1>14, <2>1
    <2>3. Names(At(n - m - 1), ids, n - m - 1)
        BY <1>12, <2>1, <2>2
    <2> QED  BY <2>1, <2>3
<1>15. Nat \subseteq T
    <2> HIDE DEF T
    <2> QED  BY <1>13, <1>14, Induct
<1>16. Names(At(0), ids, 0)
    <2>1. n \in T /\ n - n = 0 /\ n \in 0 .. n
        BY <1>1, <1>15
    <2> QED  BY <2>1
<1>17. At(0) = parseReadDataBlock(data)
    <2>1. Page(ids, 0) = 0 /\ pos[0] + 1 = 1
        BY <1>9 DEF Page
    <2>2. parseReadDataBlock(data) = f[1][0]
        BY <1>6 DEF ReadRun
    <2> QED  BY <2>1, <2>2 DEF At
<1> QED  BY <1>5, <1>7, <1>16, <1>17

\* A set of positions has a last one.
LEMMA MaxIn ==
    ASSUME NEW n \in Nat, NEW S, S \subseteq 1 .. n, S # {}
    PROVE  Max(S) \in S
<1> DEFINE T == {n - x : x \in S}
<1>1. T \subseteq Nat /\ T # {}
    <2>1. \A x \in S : x \in 1 .. n
        OBVIOUS
    <2>2. \A x \in 1 .. n : n - x \in Nat
        OBVIOUS
    <2>3. \A x \in S : n - x \in Nat
        BY <2>1, <2>2
    <2> QED  BY <2>3
<1>2. PICK m \in T : \A t \in T : m <= t
    <2> HIDE DEF T
    <2> QED  BY <1>1, Least
<1>3. PICK x \in S : m = n - x
    BY <1>2
<1>4. \A y \in S : x >= y
    <2> TAKE y \in S
    <2>1. n - x <= n - y
        BY <1>2, <1>3
    <2>2. x \in Int /\ y \in Int
        OBVIOUS
    <2> QED  BY <2>1, <2>2
<1> HIDE DEF T
<1>5. \E z \in S : \A y \in S : z >= y
    BY <1>4
<1> QED  BY <1>5 DEF Max

\* What the values of a block's entries are.
LEMMA ValuesAre ==
    ASSUME NEW es \in Seq(Entries)
    PROVE  /\ DOMAIN Values(es) = {p \in {es[i].id : i \in 1 .. Len(es)} :
                                     \E i \in 1 .. Len(es) : es[i].id = p /\ ~ es[i].unsupported}
           /\ \A p \in DOMAIN Values(es) :
                \E i \in 1 .. Len(es) : /\ es[i].id = p /\ ~ es[i].unsupported
                                        /\ Values(es)[p] = es[i].raw
<1> DEFINE own(p) == {i \in DOMAIN es : es[i].id = p /\ ~ es[i].unsupported}
           had == {p \in {es[i].id : i \in DOMAIN es} : own(p) # {}}
<1>1. Values(es) = [p \in had |-> es[Max(own(p))].raw]
    BY DEF Values
<1>2. DOMAIN es = 1 .. Len(es) /\ Len(es) \in Nat
    OBVIOUS
<1>3. \A p \in had : Max(own(p)) \in own(p)
    <2> TAKE p \in had
    <2>1. own(p) \subseteq 1 .. Len(es) /\ own(p) # {}
        BY <1>2
    <2> HIDE DEF own
    <2> QED  BY <1>2, <2>1, MaxIn
<1>4. DOMAIN Values(es) = had
    BY <1>1
<1>5. ASSUME NEW p \in had
      PROVE  \E i \in 1 .. Len(es) : /\ es[i].id = p /\ ~ es[i].unsupported
                                     /\ Values(es)[p] = es[i].raw
    <2> DEFINE i == Max(own(p))
    <2>1. i \in own(p)
        BY <1>3
    <2>2. Values(es)[p] = es[i].raw
        BY <1>1
    <2> HIDE DEF i
    <2>3. i \in 1 .. Len(es) /\ es[i].id = p /\ ~ es[i].unsupported
        BY <1>2, <2>1
    <2> QED  BY <2>2, <2>3
<1>6. had = {p \in {es[i].id : i \in 1 .. Len(es)} :
               \E i \in 1 .. Len(es) : es[i].id = p /\ ~ es[i].unsupported}
    BY <1>2
<1> HIDE DEF had
<1> QED  BY <1>4, <1>5, <1>6

\* Values that are those of the entries of the pieces.
ValuedBy(vs, e, pieces, n) ==
    /\ \A p : p \in DOMAIN vs <=>
         \E j \in 1 .. n : pieces[j] # <<>> /\ e[j].id = p /\ ~ e[j].unsupported
    /\ \A p \in DOMAIN vs :
         \E j \in 1 .. n : /\ pieces[j] # <<>> /\ e[j].id = p /\ ~ e[j].unsupported
                           /\ vs[p] = e[j].raw

\* The values of a block are those of the entries it was made of.
LEMMA TellsValues ==
    ASSUME NEW r, NEW e, NEW pieces, NEW n \in Nat, Tells(r, e, pieces, 0, n)
    PROVE  ValuedBy(Values(r.entries), e, pieces, n)
<1> DEFINE es == r.entries
           N == Len(es)
<1>1. es \in Seq(Entries)
    BY DEF Tells, Results
<1>2. /\ \A i \in 1 .. N : \E j \in 1 .. n : pieces[j] # <<>> /\ es[i] = e[j]
      /\ \A j \in 1 .. n : pieces[j] # <<>> => \E i \in 1 .. N : es[i] = e[j]
    BY DEF Tells
<1> DEFINE vs == Values(es)
<1>3. /\ DOMAIN vs = {p \in {es[i].id : i \in 1 .. N} :
                        \E i \in 1 .. N : es[i].id = p /\ ~ es[i].unsupported}
      /\ \A p \in DOMAIN vs : \E i \in 1 .. N : /\ es[i].id = p /\ ~ es[i].unsupported
                                                /\ vs[p] = es[i].raw
    <2> HIDE DEF es
    <2> QED  BY <1>1, ValuesAre
<1> HIDE DEF es, N, vs
<1>4. ASSUME NEW p \in DOMAIN vs
      PROVE  \E j \in 1 .. n : /\ pieces[j] # <<>> /\ e[j].id = p /\ ~ e[j].unsupported
                               /\ vs[p] = e[j].raw
    <2>1. PICK i \in 1 .. N : es[i].id = p /\ ~ es[i].unsupported /\ vs[p] = es[i].raw
        BY <1>3
    <2>2. PICK j \in 1 .. n : pieces[j] # <<>> /\ es[i] = e[j]
        BY <1>2
    <2> QED  BY <2>1, <2>2
<1>5. ASSUME NEW j \in 1 .. n, pieces[j] # <<>>, ~ e[j].unsupported
      PROVE  e[j].id \in DOMAIN vs
    <2>1. PICK i \in 1 .. N : es[i] = e[j]
        BY <1>2, <1>5
    <2> QED  BY <1>3, <1>5, <2>1
<1>6. \A p : p \in DOMAIN vs <=>
        \E j \in 1 .. n : pieces[j] # <<>> /\ e[j].id = p /\ ~ e[j].unsupported
    BY <1>4, <1>5
<1>7. ValuedBy(vs, e, pieces, n)
    BY <1>4, <1>6 DEF ValuedBy
<1> QED  BY <1>7 DEF vs, es

\* The parts of an entry.
LEMMA EntryParts ==
    ASSUME NEW id, NEW raw
    PROVE  /\ Absent(id).id = id /\ Absent(id).unsupported
           /\ Valued(id, raw).id = id /\ ~ Valued(id, raw).unsupported
           /\ Valued(id, raw).raw = raw
BY DEF Absent, Valued, Entry

\* Ids have 16 bits.
LEMMA IdsWords ==
    ASSUME NEW ids \in Seq(Ids)
    PROVE  /\ ids \in Seq(Word) /\ Len(ids) \in Nat /\ DOMAIN ids = 1 .. Len(ids)
           /\ \A k \in 1 .. Len(ids) : ids[k] \in Ids
<1> DEFINE n == Len(ids)
<1>1. n \in Nat /\ DOMAIN ids = 1 .. n /\ ids = [k \in 1 .. n |-> ids[k]]
    OBVIOUS
<1>2. \A k \in 1 .. n : ids[k] \in Ids
    BY ElementOfSeq
<1> HIDE DEF n
<1>3. \A k \in 1 .. n : ids[k] \in Word
    BY <1>2, IdParts
<1>4. ids \in [1 .. n -> Word]
    BY <1>1, <1>3
<1>5. ids \in Seq(Word)
    BY <1>1, <1>4
<1> QED  BY <1>1, <1>2, <1>5 DEF n

\* The piece of a value is not empty.
LEMMA SizedSome ==
    ASSUME NEW id \in Ids, NEW raw \in Seq(Byte), raw # <<>>, Len(raw) <= 255
    PROVE  Sized(id, raw) # <<>>
<1>1. Len(raw) \in Nat
    OBVIOUS
<1>2. Len(Sized(id, raw)) = 2 \/ Len(Sized(id, raw)) = 3 + Len(raw)
    <2>1. CASE Len(raw) = 1
        BY <2>1, SizedBytes
    <2>2. CASE Len(raw) # 1
        BY <2>2, SizedBytes
    <2> QED  BY <2>1, <2>2
<1>3. Len(Sized(id, raw)) # 0
    <2> DEFINE l == Len(raw)
               m == Len(Sized(id, raw))
    <2>1. l \in Nat /\ (m = 2 \/ m = 3 + l)
        BY <1>1, <1>2
    <2> HIDE DEF l, m
    <2>2. m # 0
        BY <2>1
    <2> QED  BY <2>2 DEF m
<1>4. Len(<<>>) = 0
    OBVIOUS
<1> QED  BY <1>3, <1>4

\* A unit has a value of a parameter.
Knows(u, p) == p \in DOMAIN u /\ u[p] # <<>>

\* The parameters of ids a unit has a value of.
Kept(u, ids) == {p \in {ids[k] : k \in DOMAIN ids} : p \in DOMAIN u /\ u[p] # <<>>}

\* The unit answers with its values of what it has, and nothing else.
LEMMA ResponseRead ==
    ASSUME NEW u, \A p \in DOMAIN u : u[p] \in Bytes, NEW ids \in Seq(Ids)
    PROVE  /\ buildResponseDataBlock(u, ids) \in Seq(Byte)
           /\ ParseDataBlock(buildResponseDataBlock(u, ids)).ok
           /\ Values(ParseDataBlock(buildResponseDataBlock(u, ids)).entries)
                = [p \in Kept(u, ids) |-> u[p]]
<1> DEFINE n == Len(ids)
           data == buildResponseDataBlock(u, ids)
           r == ParseDataBlock(data)
           pieces == [i \in DOMAIN ids |->
                        IF ids[i] \in DOMAIN u /\ u[ids[i]] # <<>>
                        THEN Sized(ids[i], u[ids[i]]) ELSE <<253, LoByte(ids[i])>>]
           e == [i \in DOMAIN ids |->
                   IF ids[i] \in DOMAIN u /\ u[ids[i]] # <<>>
                   THEN Valued(ids[i], u[ids[i]]) ELSE Absent(ids[i])]
           vs == Values(r.entries)
           held == Kept(u, ids)
<1>1. data = Pages(ids, pieces)
    BY DEF buildResponseDataBlock
<1>2. ids \in Seq(Word) /\ n \in Nat /\ DOMAIN ids = 1 .. n /\ \A k \in 1 .. n : ids[k] \in Ids
    BY IdsWords
<1>3. ASSUME NEW k \in 1 .. n
      PROVE  /\ Says(ids[k], pieces[k], e[k]) /\ pieces[k] # <<>>
             /\ e[k].id = ids[k]
             /\ ~ e[k].unsupported <=> Knows(u, ids[k])
             /\ Knows(u, ids[k]) => e[k].raw = u[ids[k]]
    <2> DEFINE id == ids[k]
    <2>1. id \in Ids /\ k \in DOMAIN ids
        BY <1>2
    <2>2. CASE Knows(u, id)
        <3> DEFINE raw == u[id]
        <3>1. pieces[k] = Sized(id, raw) /\ e[k] = Valued(id, raw)
            BY <2>1, <2>2 DEF Knows
        <3>2. raw \in Seq(Byte) /\ raw # <<>> /\ Len(raw) <= 255
            BY <2>2 DEF Knows, Bytes
        <3> HIDE DEF raw, id, pieces, e
        <3>3. Says(id, pieces[k], e[k])
            BY <3>1, <3>2 DEF Says
        <3>4. pieces[k] # <<>>
            <4>1. Sized(id, raw) # <<>>
                BY <2>1, <3>2, SizedSome
            <4> QED  BY <3>1, <4>1
        <3>5. e[k].id = id /\ ~ e[k].unsupported /\ e[k].raw = raw
            BY <3>1, EntryParts
        <3> QED  BY <2>2, <3>3, <3>4, <3>5 DEF id, raw
    <2>3. CASE ~ Knows(u, id)
        <3>1. pieces[k] = <<253, LoByte(id)>> /\ e[k] = Absent(id)
            BY <2>1, <2>3 DEF Knows
        <3> HIDE DEF id, pieces, e
        <3>2. Says(id, pieces[k], e[k])
            BY <3>1 DEF Says
        <3>3. pieces[k] # <<>>
            BY <3>1
        <3>4. e[k].id = id /\ e[k].unsupported
            BY <3>1, EntryParts
        <3> QED  BY <2>3, <3>2, <3>3, <3>4 DEF id
    <2> QED  BY <2>2, <2>3
<1>4. Told(ids, pieces, e)
    BY <1>2, <1>3 DEF Told
<1> HIDE DEF pieces, e
<1>5. data \in Seq(Byte) /\ Tells(r, e, pieces, 0, n)
    BY <1>1, <1>2, <1>4, BlockRead
<1> HIDE DEF n, data, r
<1>6. /\ \A p : p \in DOMAIN vs <=>
           \E j \in 1 .. n : pieces[j] # <<>> /\ e[j].id = p /\ ~ e[j].unsupported
      /\ \A p \in DOMAIN vs :
           \E j \in 1 .. n : /\ pieces[j] # <<>> /\ e[j].id = p /\ ~ e[j].unsupported
                             /\ vs[p] = e[j].raw
    <2>1. ValuedBy(vs, e, pieces, n)
        BY <1>2, <1>5, TellsValues
    <2> HIDE DEF vs
    <2> QED  BY <2>1 DEF ValuedBy
<1>7. vs = [p \in DOMAIN vs |-> vs[p]]
    BY DEF Values
<1> HIDE DEF vs, held
<1>8. ASSUME NEW p
      PROVE  p \in DOMAIN vs <=> p \in held
    <2>1. p \in held <=> \E j \in 1 .. n : ids[j] = p /\ Knows(u, ids[j])
        BY <1>2 DEF Knows, held, Kept
    <2>2. p \in DOMAIN vs <=> \E j \in 1 .. n : ids[j] = p /\ Knows(u, ids[j])
        BY <1>3, <1>6
    <2> QED  BY <2>1, <2>2
<1>9. ASSUME NEW p \in DOMAIN vs
      PROVE  vs[p] = u[p]
    <2>1. PICK j \in 1 .. n : e[j].id = p /\ ~ e[j].unsupported /\ vs[p] = e[j].raw
        BY <1>6
    <2> QED  BY <1>3, <2>1
<1>10. DOMAIN vs = held
    BY <1>8
<1>11. vs = [p \in held |-> u[p]]
    BY <1>7, <1>9, <1>10
<1>12. r.ok
    BY <1>5 DEF Tells
<1> QED  BY <1>5, <1>11, <1>12 DEF vs, held, r, data

\* What a client may write: ids and bytes the builder takes.
Packets == Seq([id : Ids, raw : Bytes])

\* A packet's values arrive as they were written.
LEMMA WriteRead ==
    ASSUME NEW ws \in Packets
    PROVE  LET data == BuildWriteDataBlock(ws)
               vs == Values(ParseDataBlock(data).entries)
           IN
           /\ data \in Seq(Byte) /\ ParseDataBlock(data) \in Results
           /\ vs = [p \in DOMAIN vs |-> vs[p]]
           /\ \A p : p \in DOMAIN vs <=> \E i \in DOMAIN ws : ws[i].raw # <<>> /\ ws[i].id = p
           /\ \A p \in DOMAIN vs :
                \E i \in DOMAIN ws : ws[i].raw # <<>> /\ ws[i] = [id |-> p, raw |-> vs[p]]
<1> DEFINE n == Len(ws)
           ids == [i \in DOMAIN ws |-> ws[i].id]
           pieces == [i \in DOMAIN ws |-> IF ws[i].raw = <<>> THEN <<>>
                                          ELSE Sized(ws[i].id, ws[i].raw)]
           e == [i \in DOMAIN ws |-> Valued(ws[i].id, ws[i].raw)]
           data == BuildWriteDataBlock(ws)
           r == ParseDataBlock(data)
           vs == Values(r.entries)
           P == [id : Ids, raw : Bytes]
<1>1. data = Pages(ids, pieces)
    BY DEF BuildWriteDataBlock
<1>2. ws \in Seq(P)
    BY DEF Packets
<1> HIDE DEF P
<1>3. n \in Nat /\ DOMAIN ws = 1 .. n /\ \A k \in 1 .. n : ws[k] \in P
    BY <1>2, ElementOfSeq
<1>4. \A k \in 1 .. n : ws[k].id \in Ids /\ ws[k].raw \in Bytes
                        /\ ws[k] = [id |-> ws[k].id, raw |-> ws[k].raw]
    BY <1>3 DEF P
<1> HIDE DEF n
<1>5. \A k \in 1 .. n : /\ ids[k] = ws[k].id /\ e[k] = Valued(ws[k].id, ws[k].raw)
                        /\ pieces[k] = IF ws[k].raw = <<>> THEN <<>> ELSE Sized(ws[k].id, ws[k].raw)
    BY <1>3
<1>6. ids \in Seq(Word) /\ Len(ids) = n
    <2>1. \A k \in 1 .. n : ws[k].id \in Word
        BY <1>4, IdParts
    <2>2. ids = [k \in 1 .. n |-> ws[k].id]
        BY <1>3
    <2> HIDE DEF ids
    <2>3. ids \in [1 .. n -> Word]
        BY <2>1, <2>2
    <2>4. ids \in Seq(Word)
        BY <1>3, <2>3
    <2> QED  BY <1>3, <2>3, <2>4, LenProperties
<1> HIDE DEF ids, pieces, e
<1>7. ASSUME NEW k \in 1 .. n
      PROVE  /\ Says(ids[k], pieces[k], e[k]) /\ ids[k] \in Ids
             /\ pieces[k] # <<>> <=> ws[k].raw # <<>>
             /\ e[k].id = ws[k].id /\ ~ e[k].unsupported /\ e[k].raw = ws[k].raw
    <2> DEFINE id == ws[k].id
               raw == ws[k].raw
    <2>1. id \in Ids /\ raw \in Seq(Byte) /\ Len(raw) <= 255
        BY <1>4 DEF Bytes
    <2>2. /\ ids[k] = id /\ e[k] = Valued(id, raw)
          /\ pieces[k] = IF raw = <<>> THEN <<>> ELSE Sized(id, raw)
        BY <1>5
    <2> HIDE DEF id, raw
    <2>3. Says(ids[k], pieces[k], e[k])
        BY <2>1, <2>2 DEF Says
    <2>4. raw # <<>> => pieces[k] # <<>>
        <3>1. raw # <<>> => Sized(id, raw) # <<>>
            BY <2>1, SizedSome
        <3> QED  BY <2>2, <3>1
    <2>5. e[k].id = id /\ ~ e[k].unsupported /\ e[k].raw = raw
        BY <2>2, EntryParts
    <2> QED  BY <2>1, <2>2, <2>3, <2>4, <2>5 DEF id, raw
<1>8. Told(ids, pieces, e)
    BY <1>6, <1>7 DEF Told
<1>9. data \in Seq(Byte) /\ Tells(r, e, pieces, 0, n)
    BY <1>1, <1>6, <1>8, BlockRead
<1> HIDE DEF data, r
<1>10. /\ \A p : p \in DOMAIN vs <=>
           \E j \in 1 .. n : pieces[j] # <<>> /\ e[j].id = p /\ ~ e[j].unsupported
      /\ \A p \in DOMAIN vs :
           \E j \in 1 .. n : /\ pieces[j] # <<>> /\ e[j].id = p /\ ~ e[j].unsupported
                             /\ vs[p] = e[j].raw
    <2>1. ValuedBy(vs, e, pieces, n)
        BY <1>3, <1>9, TellsValues
    <2> HIDE DEF vs
    <2> QED  BY <2>1 DEF ValuedBy
<1>11. vs = [p \in DOMAIN vs |-> vs[p]]
    BY DEF Values
<1> HIDE DEF vs
<1>12. r \in Results
    BY <1>9 DEF Tells
<1>13. \A p : p \in DOMAIN vs <=> \E i \in DOMAIN ws : ws[i].raw # <<>> /\ ws[i].id = p
    BY <1>3, <1>7, <1>10
<1>14. ASSUME NEW p \in DOMAIN vs
       PROVE  \E i \in DOMAIN ws : ws[i].raw # <<>> /\ ws[i] = [id |-> p, raw |-> vs[p]]
    <2>1. PICK j \in 1 .. n : pieces[j] # <<>> /\ e[j].id = p /\ vs[p] = e[j].raw
        BY <1>10
    <2>2. ws[j].raw # <<>> /\ ws[j].id = p /\ ws[j].raw = vs[p]
        BY <1>7, <2>1
    <2>3. ws[j] = [id |-> p, raw |-> vs[p]]
        BY <1>4, <2>2
    <2> QED  BY <1>3, <2>2, <2>3
<1> QED  BY <1>9, <1>11, <1>12, <1>13, <1>14 DEF vs, r, data

-----------------------------------------------------------------------------
(* Exchanges between the daemon and a unit.                                *)

\* The bytes a unit holds are such as fit its parameters.
UnitHolds == \A p \in DOMAIN unit : p \in Params /\ Holds(p, unit[p])

\* The constants fit a frame.
LEMMA FrameParts ==
    /\ DeviceID \in Seq(Byte) /\ Len(DeviceID) = 16
    /\ Password \in Seq(Byte) /\ Len(Password) <= 8
    /\ FuncRead \in Byte /\ FuncWriteWithReply \in Byte /\ FuncResponse \in Byte
<1>1. DeviceID \in [1 .. 16 -> Byte] /\ 16 \in Nat
    BY FrameFields
<1>2. DeviceID = [i \in 1 .. 16 |-> DeviceID[i]]
    BY <1>1
<1>3. DeviceID \in Seq(Byte) /\ Len(DeviceID) = 16
    BY <1>1, <1>2
<1>4. Password \in Seq(Byte) /\ Len(Password) <= 8
    BY FrameFields, WireFields
<1>5. FuncRead \in Byte /\ FuncWriteWithReply \in Byte /\ FuncResponse \in Byte
    BY DEF FuncRead, FuncWriteWithReply, FuncResponse, Byte
<1> QED  BY <1>3, <1>4, <1>5

\* What the daemon and a unit send each other arrives.
LEMMA FrameDecoded ==
    ASSUME NEW fn \in Byte, NEW data \in Seq(Byte)
    PROVE  DecodeResponse(EncodeRequest(DeviceID, Password, fn, data),
                          DeviceID, Password)
             = <<[id |-> DeviceID, password |-> Password,
                  function |-> fn, data |-> data]>>
<1> DEFINE f == [id |-> DeviceID, password |-> Password,
                 function |-> fn, data |-> data]
           raw == EncodeRequest(DeviceID, Password, fn, data)
<1>1. Sendable(DeviceID, Password, fn, data)
    BY FrameParts DEF Sendable
<1>2. Frame(raw) = <<f>>
    BY <1>1, FrameReads
<1>3. f.id = DeviceID /\ f.password = Password
    OBVIOUS
<1> HIDE DEF f, raw
<1>4. Head(<<f>>) = f /\ <<f>> # <<>>
    OBVIOUS
<1>5. DecodeResponse(raw, DeviceID, Password) = <<f>>
    BY <1>2, <1>3, <1>4 DEF DecodeResponse
<1> QED  BY <1>5 DEF f, raw

\* A sequence that names ids is one of ids.
LEMMA NamesIds ==
    ASSUME NEW ids \in Seq(Ids), NEW r, Names(r, ids, 0)
    PROVE  r \in Seq(Ids) /\ {r[i] : i \in DOMAIN r} = {ids[i] : i \in DOMAIN ids}
<1>1. /\ r \in Seq(Word)
      /\ \A i \in 1 .. Len(r) : \E j \in 0 + 1 .. Len(ids) : r[i] = ids[j]
      /\ \A j \in 0 + 1 .. Len(ids) : \E i \in 1 .. Len(r) : r[i] = ids[j]
    BY DEF Names
<1>2. DOMAIN r = 1 .. Len(r) /\ Len(r) \in Nat /\ r = [i \in 1 .. Len(r) |-> r[i]]
    BY <1>1
<1>3. DOMAIN ids = 1 .. Len(ids) /\ \A j \in 1 .. Len(ids) : ids[j] \in Ids
    BY IdsWords
<1>4. \A i \in 1 .. Len(r) : r[i] \in Ids
    BY <1>1, <1>3
<1> DEFINE n == Len(r)
<1> HIDE DEF n
<1>5. r \in [1 .. n -> Ids]
    BY <1>2, <1>4 DEF n
<1>6. r \in Seq(Ids)
    BY <1>2, <1>5 DEF n
<1>7. {r[i] : i \in DOMAIN r} = {ids[i] : i \in DOMAIN ids}
    BY <1>1, <1>2, <1>3
<1> QED  BY <1>6, <1>7

\* A request for parameters brings the values the unit has of them.
LEMMA Exchange ==
    ASSUME \A p \in DOMAIN unit : unit[p] \in Bytes, NEW ids \in Seq(Ids)
    PROVE  Exchanged(ids) = <<[p \in Held(ids) |-> unit[p]]>>
<1> DEFINE data == BuildReadDataBlock(ids)
           request == Request(FuncRead, data)
           f == [id |-> DeviceID, password |-> Password,
                 function |-> FuncRead, data |-> data]
           names == parseReadDataBlock(data)
           block == buildResponseDataBlock(unit, names)
           reply == EncodeRequest(DeviceID, Password, FuncResponse, block)
           g == [id |-> DeviceID, password |-> Password,
                 function |-> FuncResponse, data |-> block]
           parsed == ParseDataBlock(block)
<1>1. data \in Seq(Byte) /\ Names(names, ids, 0)
    BY IdsRead
<1>2. f.id = DeviceID /\ f.password = Password /\ f.function = FuncRead /\ f.data = data
    OBVIOUS
<1>3. g.function = FuncResponse /\ g.data = block
    OBVIOUS
<1>4. DecodeResponse(request, DeviceID, Password) = <<f>>
    <2> HIDE DEF data
    <2> QED  BY <1>1, FrameParts, FrameDecoded DEF Request
<1>5. names \in Seq(Ids) /\ {names[i] : i \in DOMAIN names} = {ids[i] : i \in DOMAIN ids}
    <2> HIDE DEF names
    <2> QED  BY <1>1, NamesIds
<1> HIDE DEF data, request, names
<1>6. /\ block \in Seq(Byte) /\ parsed.ok
      /\ Values(parsed.entries) = [p \in Kept(unit, names) |-> unit[p]]
    BY <1>5, ResponseRead
<1>7. Kept(unit, names) = Held(ids)
    BY <1>5 DEF Kept, Held
<1> HIDE DEF block
<1>8. DecodeResponse(reply, DeviceID, Password) = <<g>>
    BY <1>6, FrameParts, FrameDecoded
<1> HIDE DEF f, g, parsed, reply
<1>9. Head(<<f>>) = f /\ Head(<<g>>) = g /\ <<g>> # <<>>
    OBVIOUS
<1>10. Answered(unit, request) = reply
    BY <1>2, <1>4, <1>9 DEF Answered, Reply, reply, block, names
<1>11. FuncResponse # FuncAuthFailure
    BY DEF FuncResponse, FuncAuthFailure
<1>12. Received(reply) = <<Values(parsed.entries)>>
    BY <1>3, <1>6, <1>8, <1>9, <1>11 DEF Received, ReadParams, parsed
<1> QED  BY <1>6, <1>7, <1>10, <1>12 DEF Exchanged, request, data

\* Batches: a packet of a poll is of ids, in either order.
LEMMA BatchIds ==
    ASSUME NEW n \in DOMAIN Batches
    PROVE  Batches[n] \in Seq(Ids) /\ Reverse(Batches[n]) \in Seq(Ids)
<1> DEFINE l == Len(ReadIDs)
           a == 1 + BatchSize * (n - 1)
           b == IF BatchSize * n > l THEN l ELSE BatchSize * n
           s == SubSeq(ReadIDs, a, b)
<1>1. l \in Nat /\ \A k \in 1 .. l : ReadIDs[k] \in Ids
    BY WireFields, IdsWords
<1>2. BatchSize \in Nat /\ BatchSize > 0
    BY WireFields
<1>3. n \in 1 .. (l - 1) \div BatchSize + 1 /\ Batches[n] = s
    BY DEF Batches, Batched
<1>4. n \in Int /\ 1 <= n
    BY <1>3
<1> HIDE DEF l
<1>5. a \in Int /\ b \in Int /\ 1 <= a /\ b <= l
    <2> DEFINE x == BatchSize * (n - 1)
               y == BatchSize * n
    <2>1. n - 1 \in Nat
        BY <1>4
    <2>2. x \in Nat
        BY <1>2, <2>1
    <2>3. y \in Int
        BY <1>2, <1>4
    <2> HIDE DEF x, y
    <2> QED  BY <1>1, <2>2, <2>3 DEF x, y
<1> HIDE DEF a, b
<1>6. \A k \in a .. b : ReadIDs[k] \in Ids
    BY <1>1, <1>5
<1>7. s \in Seq(Ids)
    BY <1>5, <1>6, SubSeqProperties
<1> HIDE DEF s
<1>8. Reverse(s) \in Seq(Ids)
    <2> DEFINE m == Len(s)
               r == Reverse(s)
    <2>1. m \in Nat /\ r = [k \in 1 .. m |-> s[(m - k) + 1]]
        BY <1>7 DEF Reverse
    <2>2. \A k \in 1 .. m : s[k] \in Ids
        BY <1>7, ElementOfSeq
    <2> HIDE DEF m, r
    <2>3. \A k \in 1 .. m : (m - k) + 1 \in 1 .. m
        BY <2>1
    <2>4. r \in [1 .. m -> Ids]
        BY <2>1, <2>2, <2>3
    <2>5. r \in Seq(Ids)
        BY <2>1, <2>4
    <2> QED  BY <2>5 DEF r
<1> QED  BY <1>3, <1>7, <1>8

\* So a poll brings what the unit has, whatever the order in a packet.
LEMMA ReadsDoArrive ==
    ASSUME \A p \in DOMAIN unit : unit[p] \in Bytes
    PROVE  ReadsArrive
<1> SUFFICES ASSUME NEW n \in DOMAIN Batches,
                    NEW ids \in {Batches[n], Reverse(Batches[n])}
             PROVE  Exchanged(ids) = <<[p \in Held(ids) |-> unit[p]]>>
    BY DEF ReadsArrive
<1>1. ids \in Seq(Ids)
    BY BatchIds
<1> QED  BY <1>1, Exchange

\* Clients write what the builder takes, and no id of a unit.
LEMMA WritesPackets ==
    ASSUME NEW ws \in Writes
    PROVE  ws \in Packets /\ \A i \in DOMAIN ws : ws[i].id # 124
<1> DEFINE P == [id : Ids \ {124}, raw : Bytes]
           Q == [id : Ids, raw : Bytes]
           n == Len(ws)
<1>1. ws \in Seq(P)
    BY WireFields
<1>2. \A x \in P : x \in Q /\ x.id # 124
    OBVIOUS
<1> HIDE DEF P, Q
<1>3. n \in Nat /\ DOMAIN ws = 1 .. n /\ ws = [i \in 1 .. n |-> ws[i]]
    BY <1>1
<1>4. \A i \in 1 .. n : ws[i] \in P
    BY <1>1, ElementOfSeq
<1> HIDE DEF n
<1>5. ws \in [1 .. n -> Q]
    BY <1>2, <1>3, <1>4
<1>6. ws \in Seq(Q)
    BY <1>3, <1>5
<1> QED  BY <1>2, <1>3, <1>4, <1>6 DEF Packets, Q

\* The unit finds the packet a client wrote in the frame.
LEMMA PacketSent ==
    ASSUME NEW ws \in Writes
    PROVE  LET data == BuildWriteDataBlock(ws)
               f == Head(DecodeResponse(Request(FuncWriteWithReply, data),
                                        DeviceID, Password))
           IN f.data = data
<1> DEFINE data == BuildWriteDataBlock(ws)
           f == [id |-> DeviceID, password |-> Password,
                 function |-> FuncWriteWithReply, data |-> data]
           request == Request(FuncWriteWithReply, data)
<1>1. data \in Seq(Byte)
    BY WritesPackets, WriteRead
<1>2. f.data = data
    OBVIOUS
<1>3. DecodeResponse(request, DeviceID, Password) = <<f>>
    <2> HIDE DEF data
    <2> QED  BY <1>1, FrameParts, FrameDecoded DEF Request
<1> HIDE DEF data, request, f
<1>4. Head(<<f>>) = f
    OBVIOUS
<1> QED  BY <1>2, <1>3, <1>4 DEF request, data

\* Where the packet has a value of a parameter, one of these is held; what was
\* held before is else.
Took(took, ws, u) ==
    LET written == {i \in DOMAIN ws : ws[i].raw # <<>>} IN
    /\ DOMAIN took = DOMAIN u \cup {ws[i].id : i \in written}
    /\ \A p \in DOMAIN took :
         IF \E i \in written : ws[i].id = p
         THEN \E i \in written : ws[i] = [id |-> p, raw |-> took[p]]
         ELSE took[p] = u[p]

\* What the unit holds of a parameter after a packet: a value of the packet,
\* or what it held.
LEMMA PacketTaken ==
    ASSUME NEW ws \in Writes, NEW u
    PROVE  Took(Taken(u, BuildWriteDataBlock(ws)), ws, u)
<1> DEFINE data == BuildWriteDataBlock(ws)
           took == Taken(u, data)
           written == {i \in DOMAIN ws : ws[i].raw # <<>>}
           vs == Values(ParseDataBlock(data).entries)
<1>1. ws \in Packets
    BY WritesPackets
<1>2. /\ \A p : p \in DOMAIN vs <=> \E i \in DOMAIN ws : ws[i].raw # <<>> /\ ws[i].id = p
      /\ \A p \in DOMAIN vs :
           \E i \in DOMAIN ws : ws[i].raw # <<>> /\ ws[i] = [id |-> p, raw |-> vs[p]]
    BY <1>1, WriteRead
<1>3. took = vs ++ u
    BY DEF Taken
<1> HIDE DEF vs, took
<1>4. /\ DOMAIN took = DOMAIN vs \cup DOMAIN u
      /\ \A p \in DOMAIN vs : took[p] = vs[p]
      /\ \A p \in DOMAIN u : p \notin DOMAIN vs => took[p] = u[p]
    BY <1>3 DEF ++
<1>5. \A p : p \in DOMAIN vs <=> \E i \in written : ws[i].id = p
    BY <1>2
<1>6. DOMAIN took = DOMAIN u \cup {ws[i].id : i \in written}
    BY <1>4, <1>5
<1>7. ASSUME NEW p \in DOMAIN took, \E i \in written : ws[i].id = p
      PROVE  \E i \in written : ws[i] = [id |-> p, raw |-> took[p]]
    <2>1. p \in DOMAIN vs
        BY <1>5, <1>7
    <2>2. took[p] = vs[p]
        BY <1>4, <2>1
    <2>3. PICK i \in DOMAIN ws : ws[i].raw # <<>> /\ ws[i] = [id |-> p, raw |-> vs[p]]
        BY <1>2, <2>1
    <2>4. i \in written
        BY <2>3
    <2> HIDE DEF written
    <2> QED  BY <2>2, <2>3, <2>4
<1>8. ASSUME NEW p \in DOMAIN took, ~ \E i \in written : ws[i].id = p
      PROVE  took[p] = u[p]
    BY <1>4, <1>5, <1>8
<1> QED  BY <1>6, <1>7, <1>8 DEF Took, took, data

\* And a client's packet arrives as written.
LEMMA WritesDoArrive == WritesArrive
<1> SUFFICES ASSUME NEW ws \in Writes
             PROVE  LET f == Head(DecodeResponse(Request(FuncWriteWithReply,
                                    BuildWriteDataBlock(ws)), DeviceID, Password))
                        written == {i \in DOMAIN ws : ws[i].raw # <<>>}
                    IN \A p \in DOMAIN unit \cup {ws[i].id : i \in written} :
                         IF \E i \in written : ws[i].id = p
                         THEN \E i \in written : ws[i] = [id |-> p,
                                                  raw |-> Taken(unit, f.data)[p]]
                         ELSE Taken(unit, f.data)[p] = unit[p]
    BY DEF WritesArrive
<1> DEFINE data == BuildWriteDataBlock(ws)
           f == Head(DecodeResponse(Request(FuncWriteWithReply, data),
                                    DeviceID, Password))
           written == {i \in DOMAIN ws : ws[i].raw # <<>>}
           took == Taken(unit, data)
<1>1. f.data = data
    BY PacketSent
<1>2. /\ DOMAIN took = DOMAIN unit \cup {ws[i].id : i \in written}
      /\ \A p \in DOMAIN took :
           IF \E i \in written : ws[i].id = p
           THEN \E i \in written : ws[i] = [id |-> p, raw |-> took[p]]
           ELSE took[p] = unit[p]
    <2>1. Took(took, ws, unit)
        BY PacketTaken
    <2> HIDE DEF took
    <2> QED  BY <2>1 DEF Took
<1> HIDE DEF f, data
<1> QED  BY <1>1, <1>2 DEF f, data

\* Two bytes and their number.
LEMMA PairNumber ==
    ASSUME NEW x \in Byte, NEW y \in Byte
    PROVE  /\ Num16(<<x, y>>) = x + 256 * y
           /\ LE16(x + 256 * y) = <<x, y>>
           /\ LE16((x + 256 * y) % 65536) = <<x, y>>
           /\ LE16(Signed(x + 256 * y) % 65536) = <<x, y>>
<1> DEFINE n == x + 256 * y
<1>1. x \in Int /\ y \in Int /\ 0 <= x /\ x <= 255 /\ 0 <= y /\ y <= 255
    BY DEF Byte
<1>2. n \in Int /\ 0 <= n /\ n <= 65535
    BY <1>1
<1>3. n % 256 = x
    BY <1>1
<1>4. n \div 256 = y
    BY <1>1
<1>5. Num16(<<x, y>>) = n
    BY DEF Num16
<1> HIDE DEF n
<1>6. n % 65536 = n
    BY <1>2
<1>7. Signed(n) % 65536 = n
    <2>1. CASE n < 32768
        BY <1>6, <2>1 DEF Signed
    <2>2. CASE ~ (n < 32768)
        <3>1. Signed(n) = n - 65536
            BY <2>2 DEF Signed
        <3>2. (n - 65536) % 65536 = n
            BY <1>2, <2>2
        <3> QED  BY <3>1, <3>2
    <2> QED  BY <2>1, <2>2
<1>8. LE16(n) = <<x, y>>
    BY <1>3, <1>4 DEF LE16
<1> QED  BY <1>5, <1>6, <1>7, <1>8 DEF n

\* Two bytes and two more.
LEMMA FourBytes ==
    ASSUME NEW raw \in Seq(Byte), Len(raw) = 4
    PROVE  /\ raw[3] \in Byte /\ raw[4] \in Byte
           /\ Tail(Tail(raw)) = <<raw[3], raw[4]>>
           /\ <<raw[1], raw[2]>> \o <<raw[3], raw[4]>> = raw
<1> DEFINE a == raw[1]
           b == raw[2]
           x == raw[3]
           y == raw[4]
           t == Tail(raw)
           u == Tail(t)
<1>1. raw[1] \in Byte /\ raw[2] \in Byte /\ raw[3] \in Byte /\ raw[4] \in Byte
    <2>1. 1 \in 1 .. Len(raw) /\ 2 \in 1 .. Len(raw) /\ 3 \in 1 .. Len(raw)
          /\ 4 \in 1 .. Len(raw)
        OBVIOUS
    <2> QED  BY <2>1, ElementOfSeq
<1>2. t \in Seq(Byte) /\ Len(t) = 3 /\ t[2] = raw[3] /\ t[3] = raw[4]
    <2>1. raw # <<>>
        OBVIOUS
    <2>2. t \in Seq(Byte) /\ Len(t) = Len(raw) - 1
          /\ \A i \in 1 .. Len(t) : t[i] = raw[i + 1]
        BY <2>1, HeadTailProperties
    <2> HIDE DEF t
    <2>3. Len(t) = 3 /\ 2 \in 1 .. Len(t) /\ 3 \in 1 .. Len(t)
        BY <2>2
    <2> QED  BY <2>2, <2>3
<1> HIDE DEF t
<1>3. u \in Seq(Byte) /\ Len(u) = 2 /\ u[1] = t[2] /\ u[2] = t[3]
    <2>1. t # <<>>
        <3>1. Len(<<>>) = 0
            OBVIOUS
        <3>2. Len(t) # Len(<<>>)
            BY <1>2, <3>1
        <3> QED  BY <3>2
    <2>2. u \in Seq(Byte) /\ Len(u) = Len(t) - 1
          /\ \A i \in 1 .. Len(u) : u[i] = t[i + 1]
        BY <1>2, <2>1, HeadTailProperties
    <2> HIDE DEF u
    <2>3. Len(u) = 2 /\ 1 \in 1 .. Len(u) /\ 2 \in 1 .. Len(u)
        BY <1>2, <2>2
    <2>4. u[1] = t[1 + 1] /\ u[2] = t[2 + 1]
        BY <2>2, <2>3
    <2>5. u[1] = t[2] /\ u[2] = t[3]
        <3>1. 1 + 1 = 2 /\ 2 + 1 = 3
            OBVIOUS
        <3> QED  BY <2>4, <3>1
    <2> QED  BY <2>2, <2>3, <2>5
<1> HIDE DEF u
<1>4. u = <<raw[3], raw[4]>>
    BY <1>2, <1>3
<1> DEFINE l == <<a, b>>
           r == <<x, y>>
           s == l \o r
<1>5. l \in Seq(Byte) /\ Len(l) = 2 /\ r \in Seq(Byte) /\ Len(r) = 2
    BY <1>1
<1>6. l[1] = raw[1] /\ l[2] = raw[2] /\ r[1] = raw[3] /\ r[2] = raw[4]
    OBVIOUS
<1> HIDE DEF l, r
<1>7. s \in Seq(Byte) /\ Len(s) = Len(l) + Len(r)
      /\ \A i \in 1 .. Len(l) + Len(r) :
            s[i] = IF i <= Len(l) THEN l[i] ELSE r[i - Len(l)]
    BY <1>5, ConcatProperties
<1> HIDE DEF s
<1>8. Len(s) = 4 /\ \A i \in 1 .. 4 : s[i] = IF i <= 2 THEN l[i] ELSE r[i - 2]
    BY <1>5, <1>7
<1>9. s[1] = raw[1] /\ s[2] = raw[2] /\ s[3] = raw[3] /\ s[4] = raw[4]
    <2>1. s[1] = l[1] /\ s[2] = l[2] /\ s[3] = r[3 - 2] /\ s[4] = r[4 - 2]
        BY <1>8
    <2> QED  BY <1>6, <2>1
<1>10. \A i \in 1 .. Len(s) : s[i] = raw[i]
    BY <1>8, <1>9
<1>11. s = raw
    BY <1>7, <1>8, <1>10, SeqEqual
<1> QED  BY <1>1, <1>4, <1>11 DEF s, l, r, u, t

\* The types.
LEMMA TypeSizes ==
    /\ Sizes.uint8 = 1 /\ Sizes.uint16 = 2 /\ Sizes.int16 = 2 /\ Sizes.ipv4 = 4
    /\ Sizes.time_of_day = 3 /\ Sizes.date = 4 /\ Sizes.duration = 2
    /\ Sizes.remaining_time = 4
    /\ DOMAIN Sizes = {"uint8", "uint16", "int16", "ipv4", "time_of_day", "date",
                       "duration", "remaining_time"}
BY DEF Sizes

\* Reversed twice, bytes are as they were.
LEMMA ReverseTwice ==
    ASSUME NEW s \in Seq(Byte)
    PROVE  Reverse(Reverse(s)) = s
<1> DEFINE n == Len(s)
           r == Reverse(s)
           t == Reverse(r)
<1>1. n \in Nat /\ r = [k \in 1 .. n |-> s[(n - k) + 1]] /\ s = [k \in 1 .. n |-> s[k]]
    BY DEF Reverse
<1>2. t = [k \in 1 .. Len(r) |-> r[(Len(r) - k) + 1]]
    BY DEF Reverse
<1> HIDE DEF n, r, t
<1>3. Len(r) = n
    BY <1>1
<1>4. t = [k \in 1 .. n |-> r[(n - k) + 1]]
    BY <1>2, <1>3
<1>5. ASSUME NEW k \in 1 .. n
      PROVE  r[(n - k) + 1] = s[k]
    <2> DEFINE j == (n - k) + 1
    <2>1. j \in 1 .. n /\ (n - j) + 1 = k
        BY <1>1
    <2> HIDE DEF j
    <2>2. r[j] = s[(n - j) + 1]
        BY <1>1, <2>1
    <2> QED  BY <2>1, <2>2 DEF j
<1>6. t = s
    BY <1>1, <1>4, <1>5
<1> QED  BY <1>6 DEF t, r

\* What a type makes of bytes, it encodes into the same bytes.
LEMMA Inverted ==
    ASSUME NEW raw \in Seq(Byte), NEW type \in DOMAIN Sizes,
           Decode(type, raw) # <<>>
    PROVE  Encode(type, Decode(type, raw)) = raw
<1>1. Len(raw) = Sizes[type]
    BY DEF Decode
<1>2. CASE type \in {"uint16", "int16"}
    <2> DEFINE x == raw[1]
               y == raw[2]
    <2>1. Len(raw) = 2
        BY <1>1, <1>2, TypeSizes
    <2>2. raw = <<x, y>> /\ x \in Byte /\ y \in Byte
        BY <2>1
    <2> HIDE DEF x, y
    <2>3. Num16(raw) = x + 256 * y
        BY <2>2, PairNumber
    <2>4. CASE type = "uint16"
        <3>1. Decode(type, raw) = <<Num16(raw)>>
            BY <1>1, <2>4 DEF Decode
        <3>2. Encode(type, <<Num16(raw)>>) = LE16(Num16(raw) % 65536)
            BY <2>4 DEF Encode
        <3> QED  BY <2>2, <2>3, <3>1, <3>2, PairNumber
    <2>5. CASE type = "int16"
        <3>1. Decode(type, raw) = <<Signed(Num16(raw))>>
            BY <1>1, <2>5 DEF Decode
        <3>2. Encode(type, <<Signed(Num16(raw))>>) = LE16(Signed(Num16(raw)) % 65536)
            BY <2>5 DEF Encode
        <3> QED  BY <2>2, <2>3, <3>1, <3>2, PairNumber
    <2> QED  BY <1>2, <2>4, <2>5
<1>3. CASE type \in {"time_of_day", "duration"}
    <2>1. Decode(type, raw) = Reverse(raw)
        BY <1>1, <1>3 DEF Decode
    <2>2. Encode(type, Reverse(raw)) = Reverse(Reverse(raw))
        BY <1>3 DEF Encode
    <2> QED  BY <2>1, <2>2, ReverseTwice
<1>4. CASE type = "remaining_time"
    <2> DEFINE a == raw[1]
               b == raw[2]
               x == raw[3]
               y == raw[4]
    <2>1. Len(raw) = 4
        BY <1>1, <1>4, TypeSizes
    <2>2. /\ x \in Byte /\ y \in Byte /\ Tail(Tail(raw)) = <<x, y>>
          /\ <<a, b>> \o <<x, y>> = raw
        BY <2>1, FourBytes
    <2>3. Decode(type, raw) = <<Num16(Tail(Tail(raw))), b, a>>
        BY <1>1, <1>4 DEF Decode
    <2> HIDE DEF a, b, x, y
    <2> DEFINE n == x + 256 * y
    <2>4. Num16(<<x, y>>) = n /\ LE16(n) = <<x, y>>
        BY <2>2, PairNumber
    <2> HIDE DEF n
    <2>5. Encode(type, <<n, b, a>>) = <<a, b>> \o LE16(n)
        <3> DEFINE v == <<n, b, a>>
        <3>1. v[1] = n /\ v[2] = b /\ v[3] = a
            OBVIOUS
        <3> HIDE DEF v
        <3>2. Encode(type, v) = <<v[3], v[2]>> \o LE16(v[1])
            BY <1>4 DEF Encode
        <3> QED  BY <3>1, <3>2 DEF v
    <2> QED  BY <2>2, <2>3, <2>4, <2>5
<1>5. CASE type \in {"uint8", "ipv4", "date"}
    <2>1. Decode(type, raw) = raw
        BY <1>1, <1>5 DEF Decode
    <2>2. Encode(type, raw) = raw
        BY <1>5 DEF Encode
    <2> QED  BY <2>1, <2>2
<1> QED  BY <1>2, <1>3, <1>4, <1>5, TypeSizes

\* Whatever bytes the unit holds, a type that takes them gives them back.
LEMMA TypesDoInvert ==
    ASSUME \A p \in DOMAIN unit : unit[p] \in Bytes
    PROVE  TypesInvert
<1>1. \A p \in DOMAIN unit : unit[p] \in Seq(Byte)
    BY DEF Bytes
<1> QED  BY <1>1, Inverted DEF TypesInvert

-----------------------------------------------------------------------------
(* The probe, and the theorem.                                             *)

\* The parameters the probe asks for.
LEMMA ProbeIds == <<124, 185>> \in Seq(Ids)
<1>1. 124 % 256 = 124 /\ 185 % 256 = 185
    OBVIOUS
<1>2. 124 \in 0 .. 65535 /\ 185 \in 0 .. 65535
    OBVIOUS
<1>3. 124 \in Ids /\ 185 \in Ids
    BY <1>1, <1>2 DEF Ids, isReservedLowByte, LoByte
<1> QED  BY <1>3

\* The frame of the answer to the probe, and that it is one.
LEMMA ProbeSent ==
    ASSUME UnitHolds
    PROVE  LET block == buildResponseDataBlock(unit, <<124, 185>>) IN
           /\ Sendable(DeviceID, <<>>, FuncResponse, block)
           /\ ParseDataBlock(block).ok
           /\ Values(ParseDataBlock(block).entries)
                = [p \in Kept(unit, <<124, 185>>) |-> unit[p]]
<1> DEFINE ids == <<124, 185>>
           block == buildResponseDataBlock(unit, ids)
           parsed == ParseDataBlock(block)
<1>1. \A p \in DOMAIN unit : unit[p] \in Bytes
    BY DEF UnitHolds, Holds
<1>2. ids \in Seq(Ids)
    BY ProbeIds
<1> HIDE DEF ids
<1>3. /\ block \in Seq(Byte) /\ parsed.ok
      /\ Values(parsed.entries) = [p \in Kept(unit, ids) |-> unit[p]]
    BY <1>1, <1>2, ResponseRead
<1> HIDE DEF block
<1>4. <<>> \in Seq(Byte) /\ Len(<<>>) = 0 /\ 0 <= 8
    OBVIOUS
<1>5. Sendable(DeviceID, <<>>, FuncResponse, block)
    BY <1>3, <1>4, FrameParts DEF Sendable
<1> QED  BY <1>3, <1>5 DEF block, ids

\* The daemon takes the unit for whom it says it is.
LEMMA ProbeAnswered ==
    ASSUME UnitHolds
    PROVE  parseDiscoveryResponse(ProbeReply, Wildcard) = <<DeviceID>>
<1> DEFINE ids == <<124, 185>>
           block == buildResponseDataBlock(unit, ids)
           f == [id |-> DeviceID, password |-> <<>>,
                 function |-> FuncResponse, data |-> block]
           parsed == ParseDataBlock(block)
           own == Values(parsed.entries)
           who == IF 124 \in DOMAIN own /\ own[124] # <<>> THEN own[124] ELSE DeviceID
<1>1. /\ Sendable(DeviceID, <<>>, FuncResponse, block)
      /\ parsed.ok /\ own = [p \in Kept(unit, ids) |-> unit[p]]
    BY ProbeSent
<1>2. ProbeReply = EncodeRequest(DeviceID, <<>>, FuncResponse, block)
    BY DEF ProbeReply
<1>3. f.id = DeviceID /\ f.function = FuncResponse /\ f.data = block
    OBVIOUS
<1> HIDE DEF block
<1>4. Frame(ProbeReply) = <<f>>
    BY <1>1, <1>2, FrameReads
<1>5. DecodeDiscoveryResponse(ProbeReply) = <<f>>
    BY <1>4 DEF DecodeDiscoveryResponse
<1> HIDE DEF f, parsed, ids
<1>6. own[124] \in {<<>>, DeviceID} \/ 124 \notin DOMAIN own
    <2>1. ASSUME 124 \in DOMAIN own
          PROVE  own[124] \in {<<>>, DeviceID}
        <3> HIDE DEF own
        <3>1. 124 \in Kept(unit, ids)
            BY <1>1, <2>1
        <3>2. 124 \in DOMAIN unit
            BY <3>1 DEF Kept
        <3>3. own[124] = unit[124]
            BY <1>1, <3>1
        <3> QED  BY <3>2, <3>3 DEF UnitHolds, Holds
    <2> QED  BY <2>1
<1> HIDE DEF own
<1>7. who = DeviceID
    BY <1>6
<1> HIDE DEF who
<1>8. Head(<<f>>) = f /\ <<f>> # <<>> /\ FuncResponse # FuncAuthFailure
    BY DEF FuncResponse, FuncAuthFailure
<1>9. who # Wildcard
    BY <1>7, WireFields
<1>10. parseDiscoveryResponse(ProbeReply, Wildcard) = <<who>>
    BY <1>1, <1>3, <1>5, <1>8, <1>9 DEF parseDiscoveryResponse, who, own, parsed
<1> QED  BY <1>7, <1>10

\* Bytes are from 0 to 255.
LEMMA ByteRange == \A x \in Byte : x \in Int /\ 0 <= x /\ x <= 255
BY DEF Byte

\* A spoiled frame is one with another byte.
LEMMA SpoiledOneOff ==
    ASSUME NEW raw \in Seq(Byte), NEW t \in Spoiled(raw)
    PROVE  t \in Seq(Byte) /\ \E i : OneOff(raw, t, i)
<1>1. PICK i \in DOMAIN raw, d \in {1, 128} : t = [raw EXCEPT ![i] = (@ + d) % 256]
    BY DEF Spoiled
<1> DEFINE n == Len(raw)
           y == (raw[i] + d) % 256
<1>2. n \in Nat /\ DOMAIN raw = 1 .. n /\ i \in 1 .. n
    BY <1>1
<1>3. raw[i] \in Byte
    BY <1>2, ElementOfSeq
<1>4. y \in Byte /\ y # raw[i]
    <2> DEFINE x == raw[i]
    <2>1. x \in Int /\ 0 <= x /\ x <= 255
        BY <1>3, ByteRange
    <2> HIDE DEF x
    <2>2. CASE d = 1
        <3>1. (x + 1) % 256 \in 0 .. 255 /\ (x + 1) % 256 # x
            BY <2>1
        <3> QED  BY <2>2, <3>1 DEF x, Byte
    <2>3. CASE d = 128
        <3>1. (x + 128) % 256 \in 0 .. 255 /\ (x + 128) % 256 # x
            BY <2>1
        <3> QED  BY <2>3, <3>1 DEF x, Byte
    <2> QED  BY <1>1, <2>2, <2>3
<1>5. t = [raw EXCEPT ![i] = y]
    BY <1>1
<1> HIDE DEF y, n
<1>6. /\ t \in Seq(Byte) /\ Len(t) = Len(raw)
      /\ \A j \in 1 .. Len(raw) : t[j] = IF j = i THEN y ELSE raw[j]
    BY <1>2, <1>4, <1>5, ExceptSeq DEF n
<1>7. OneOff(raw, t, i)
    BY <1>2, <1>4, <1>6 DEF OneOff, n
<1> QED  BY <1>6, <1>7

\* A unit is found, and a spoiled answer is dropped.
LEMMA ProbeDoesFindUnit ==
    ASSUME UnitHolds
    PROVE  ProbeFindsUnit
<1> DEFINE block == buildResponseDataBlock(unit, <<124, 185>>)
           raw == EncodeRequest(DeviceID, <<>>, FuncResponse, block)
<1>1. Sendable(DeviceID, <<>>, FuncResponse, block)
    BY ProbeSent
<1> HIDE DEF block
<1>2. ProbeReply = raw
    BY DEF ProbeReply, block
<1>3. raw \in Seq(Byte)
    BY <1>1, RawBytes
<1>4. ASSUME NEW t \in Spoiled(raw)
      PROVE  parseDiscoveryResponse(t, Wildcard) = <<>>
    <2>1. raw = EncodeRequest(DeviceID, <<>>, FuncResponse, block)
        OBVIOUS
    <2> HIDE DEF raw
    <2>2. t \in Seq(Byte)
        BY <1>3, SpoiledOneOff
    <2>3. PICK i : OneOff(raw, t, i)
        BY <1>3, SpoiledOneOff
    <2>4. Frame(t) = <<>>
        BY <1>1, <2>1, <2>2, <2>3, FrameTells
    <2>5. DecodeDiscoveryResponse(t) = <<>>
        BY <2>4 DEF DecodeDiscoveryResponse
    <2> QED  BY <2>5 DEF parseDiscoveryResponse
<1> HIDE DEF raw
<1> QED  BY <1>2, <1>4, ProbeAnswered DEF ProbeFindsUnit

\* While the unit holds what fits, the wire is faithful.
LEMMA Faithful ==
    ASSUME UnitHolds
    PROVE  WireFaithful
<1>1. \A p \in DOMAIN unit : unit[p] \in Bytes
    BY DEF UnitHolds, Holds
<1> QED  BY <1>1, ReadsDoArrive, WritesDoArrive, TypesDoInvert, ProbeDoesFindUnit
         DEF WireFaithful

\* A packet leaves the unit with what fits.
LEMMA WriteHeld ==
    ASSUME UnitHolds, Write
    PROVE  UnitHolds'
<1>1. PICK ws \in Writes :
        LET request == Request(FuncWriteWithReply, BuildWriteDataBlock(ws))
            f == Head(DecodeResponse(request, DeviceID, Password))
        IN unit' = Taken(unit, f.data)
    BY DEF Write
<1> DEFINE data == BuildWriteDataBlock(ws)
           took == Taken(unit, data)
           written == {i \in DOMAIN ws : ws[i].raw # <<>>}
<1>2. unit' = took
    BY <1>1, PacketSent
<1>3. /\ DOMAIN took = DOMAIN unit \cup {ws[i].id : i \in written}
      /\ \A p \in DOMAIN took :
           IF \E i \in written : ws[i].id = p
           THEN \E i \in written : ws[i] = [id |-> p, raw |-> took[p]]
           ELSE took[p] = unit[p]
    <2>1. Took(took, ws, unit)
        BY PacketTaken
    <2> HIDE DEF took
    <2> QED  BY <2>1 DEF Took
<1> HIDE DEF took
<1>4. ASSUME NEW i \in written
      PROVE  ws[i].id \in Params
    <2>1. ws[i].id \in Named(ws)
        BY DEF Named
    <2> QED  BY <2>1 DEF Params
<1>5. ASSUME NEW i \in written
      PROVE  ws[i].id # 124 /\ ws[i].raw \in Bytes
    <2> DEFINE P == [id : Ids, raw : Bytes]
    <2>1. ws \in Packets /\ i \in DOMAIN ws
        BY WritesPackets
    <2>2. ws[i].id # 124
        BY <2>1, WritesPackets
    <2>3. ws \in Seq(P)
        BY <2>1 DEF Packets
    <2>4. \A x \in P : x.raw \in Bytes
        OBVIOUS
    <2> HIDE DEF P
    <2>5. ws[i] \in P
        BY <2>1, <2>3, ElementOfSeq
    <2> QED  BY <2>2, <2>4, <2>5
<1> HIDE DEF written
<1>6. ASSUME NEW p \in DOMAIN took
      PROVE  p \in Params /\ Holds(p, took[p])
    <2>1. CASE \E i \in written : ws[i].id = p
        <3>1. PICK i \in written : ws[i] = [id |-> p, raw |-> took[p]]
            BY <1>3, <2>1
        <3>2. ws[i].id = p /\ ws[i].raw = took[p]
            BY <3>1
        <3> QED  BY <1>4, <1>5, <3>2 DEF Holds
    <2>2. CASE ~ \E i \in written : ws[i].id = p
        <3>1. p \in DOMAIN unit /\ took[p] = unit[p]
            BY <1>3, <2>2
        <3> QED  BY <3>1 DEF UnitHolds
    <2> QED  BY <2>1, <2>2
<1> QED  BY <1>2, <1>6 DEF UnitHolds

\* Whatever bytes a unit holds and clients write, in whatever order polls, lost
\* batches, writes and changes came: what is sent arrives, and nothing else does
\* (frame.go:95-438, client.go:158-215, params.go:419-595,
\* discover.go:273-321).
THEOREM WireIsFaithful == ReadingsSpec => []WireFaithful
<1>1. ReadingsInit => UnitHolds
    <2> SUFFICES ASSUME ReadingsInit
                 PROVE  UnitHolds
        OBVIOUS
    <2>1. unit \in Units
        BY DEF ReadingsInit
    <2>2. \A p \in DOMAIN unit : Holds(p, unit[p])
        BY <2>1, WireFields
    <2>3. \A p \in DOMAIN unit : p \in Params
        BY <2>1 DEF Params
    <2> QED  BY <2>2, <2>3 DEF UnitHolds
<1>2. UnitHolds /\ [ReadingsNext]_readingsVars => UnitHolds'
    <2> SUFFICES ASSUME UnitHolds, [ReadingsNext]_readingsVars
                 PROVE  UnitHolds'
        OBVIOUS
    <2>1. CASE unit' = unit
        BY <2>1 DEF UnitHolds
    <2>2. CASE Write
        BY <2>2, WriteHeld
    <2>3. CASE Change
        <3>1. PICK p \in DOMAIN unit : \E raw \in Others(p) :
                unit' = [unit EXCEPT ![p] = raw]
            BY <2>3 DEF Change
        <3>2. PICK raw \in Others(p) : unit' = [unit EXCEPT ![p] = raw]
            BY <3>1
        <3>3. p \in Params /\ Holds(p, raw)
            BY WireFields DEF UnitHolds
        <3>4. ASSUME NEW q \in DOMAIN unit'
              PROVE  q \in Params /\ Holds(q, unit'[q])
            <4>1. q \in DOMAIN unit /\ unit'[q] = IF q = p THEN raw ELSE unit[q]
                BY <3>2
            <4>2. CASE q = p
                BY <3>3, <4>1, <4>2
            <4>3. CASE q # p
                BY <4>1, <4>3 DEF UnitHolds
            <4> QED  BY <4>2, <4>3
        <3> QED  BY <3>4 DEF UnitHolds
    <2>4. CASE Poll \/ PollSettling \/ PollPartly \/ Scrape
        <3>1. unit' = unit
            BY <2>4 DEF Poll, PollSettling, PollOf, PollPartly, Scrape
        <3> QED  BY <2>1, <3>1
    <2>5. CASE UNCHANGED readingsVars
        BY <2>1, <2>5 DEF readingsVars
    <2> QED  BY <2>2, <2>3, <2>4, <2>5 DEF ReadingsNext
<1>3. UnitHolds => WireFaithful
    BY Faithful
<1> QED  BY <1>1, <1>2, <1>3, PTL DEF ReadingsSpec
=============================================================================

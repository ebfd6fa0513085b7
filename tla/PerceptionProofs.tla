-------------------------- MODULE PerceptionProofs --------------------------
(***************************************************************************)
(* Theorems about what the navigation stack believes, for every value of   *)
(* the constants: first the robot's place (amcl, Amcl.tla), then the map   *)
(* around it (costmap_2d, Costmap2DROS.tla).  The two parts share nothing  *)
(* but this module.                                                        *)
(***************************************************************************)
EXTENDS Amcl, Costmap2DROS, TLAPS, WellFoundedInduction

\* What the bounds and the history variables hold.
Bookkeeping ==
  /\ used \in [{"moves", "calls", "faults", "stops"} -> Nat]
  /\ used.moves <= MaxMoves /\ odom = used.moves
  /\ before # <<>> => before[1].offset \in Int /\ before[1].odom \in Int

\* The offset of the filter and of the transform.
OffsetKept ==
  /\ up /\ pfInit => map
  /\ up /\ ~pfInit => ~fresh
  /\ up /\ pfInit /\ ~twice => est - pfOdom = offset
  /\ up /\ pfInit /\ ~twice /\ fresh => tf = offset

\* The pose that the run before ended with, on its way from the parameter server
\* through the filter to the offset of this run.
End == before[1].offset + before[1].odom
EndKept ==
  before # <<>> =>
    /\ up /\ ~map => hyp = <<>>
    /\ ~up \/ ~map => saved = End
    /\ up /\ map /\ ~pfInit => est = End
    /\ up /\ pfInit => offset + first = End

AmclInv == TypeOK /\ Bookkeeping /\ OffsetKept /\ EndKept

USE DEF vars, filterVars, laserVars, outVars, historyVars

-----------------------------------------------------------------------------
(* Types.                                                                    *)

Flags == {up, map, pfInit, force, tfValid, twice, fresh, forceLost} \subseteq BOOLEAN
Numbers == {est, pfOdom, tf, lastOdom, published, saved, odom, offset, first} \subseteq Int
Hypothesis == hyp \in {<<>>} \cup {<<p>> : p \in Poses}
LaserSets == due \subseteq known /\ known \subseteq Lasers /\ resamples \in 0..(Interval - 1)
ScanType == scan \in {<<>>} \cup {<<s>> : s \in [laser : Lasers, odom : 0..MaxMoves]}

\* A scan was taken at a place that the robot has been to.
LEMMA ScanPlace ==
  ASSUME TypeOK, scan # <<>>
  PROVE  At \in Int /\ Laser \in Lasers
<1>1. PICK s \in [laser : Lasers, odom : 0..MaxMoves] : scan = <<s>>
  BY DEF TypeOK
<1>2. scan[1] = s
  BY <1>1
<1> QED
  BY <1>2, AmclAssumption DEF At, Laser

\* A pose that waits for the map is one that was given.
LEMMA HypothesisPlace ==
  ASSUME TypeOK, hyp # <<>>
  PROVE  hyp[1] \in Poses
<1>1. PICK p \in Poses : hyp = <<p>>
  BY DEF TypeOK
<1> QED
  BY <1>1

\* Every action keeps the flags Boolean.
LEMMA FlagsStep == TypeOK /\ [Next]_vars => Flags'
<1> SUFFICES ASSUME TypeOK, [Next]_vars PROVE Flags'
  OBVIOUS
<1> USE DEF TypeOK, Flags, Spend, Initialized, Received, ScanBegins, ScanMeasured, NothingNew
<1>1. FirstMap => Flags'
  BY Zenon DEF FirstMap, HandleMap
<1>2. AnotherMap => Flags'
  BY Zenon DEF AnotherMap, HandleMap
<1>3. SetMap => Flags'
  BY Zenon DEF SetMap, HandleMap
<1>4. InitialPose => Flags'
  BY Zenon DEF InitialPose
<1>5. GlobalLocalization => Flags'
  BY Zenon DEF GlobalLocalization
<1>6. NomotionUpdate => Flags'
  BY Zenon DEF NomotionUpdate
<1>7. Reconfigure => Flags'
  BY Zenon DEF Reconfigure
<1>8. ScanWithoutMap => Flags'
  BY Zenon DEF ScanWithoutMap
<1>9. LaserUnknown => Flags'
  BY Zenon DEF LaserUnknown
<1>10. OdometryUnknown => Flags'
  BY Zenon DEF OdometryUnknown
<1>11. ScanNotNeeded => Flags'
  BY Zenon DEF ScanNotNeeded
<1>12. ScanBad => Flags'
  BY Zenon DEF ScanBad
<1>13. ScanUsed => Flags'
  BY Zenon DEF ScanUsed
<1>14. ScanPublished => Flags'
  BY Zenon DEF ScanPublished
<1>15. ScanNotPublished => Flags'
  BY Zenon DEF ScanNotPublished
<1>16. TakeScan => Flags'
  BY Zenon DEF TakeScan
<1>17. Move => Flags'
  BY Zenon DEF Move
<1>18. Interrupted => Flags'
  BY Zenon DEF Interrupted
<1>19. Killed => Flags'
  BY Zenon DEF Killed
<1>20. Restart => Flags'
  BY Zenon DEF Restart, Started
<1>21. UNCHANGED vars => Flags'
  BY Zenon
<1> QED
  BY <1>1, <1>2, <1>3, <1>4, <1>5, <1>6, <1>7, <1>8, <1>9, <1>10, <1>11, <1>12, <1>13, <1>14,
     <1>15, <1>16, <1>17, <1>18, <1>19, <1>20, <1>21 DEF Next, LaserReceived

\* What every scan does that is not turned away at once.
LEMMA Scanned ==
  ASSUME TypeOK, ScanBegins(TRUE) \/ ScanBegins(FALSE)
  PROVE  /\ At \in Int /\ Delta \in Int
         /\ {est', lastOdom', offset', first', odom'} \subseteq Int
         /\ known' \subseteq Lasers /\ DueNow \subseteq known'
<1>1. At \in Int /\ Laser \in Lasers
  BY ScanPlace DEF ScanBegins, Received
<1>2. {est, pfOdom, odom, offset, first} \subseteq Int
  BY DEF TypeOK
<1>3. Delta \in Int
  BY <1>1, <1>2 DEF Delta
<1>4. {est', lastOdom', odom'} \subseteq Int
  BY <1>1, <1>2, <1>3 DEF ScanBegins
<1>5. {offset', first'} \subseteq Int
  BY <1>1, <1>2 DEF ScanBegins
<1>6. known' \subseteq Lasers /\ DueNow \subseteq known'
  BY <1>1 DEF ScanBegins, TypeOK, DueNow, DueBefore, KnownNow
<1> QED
  BY <1>1, <1>3, <1>4, <1>5, <1>6

\* The count of scans used starts again at the interval.
LEMMA Resampled ==
  ASSUME NEW r \in 0..(Interval - 1)
  PROVE  (r + 1) % Interval \in 0..(Interval - 1)
BY AmclAssumption

\* The types of what a measurement writes.
LEMMA Measured ==
  ASSUME TypeOK, ScanMeasured
  PROVE  /\ {est', lastOdom', offset', first', odom', pfOdom'} \subseteq Int
         /\ At \in Int
         /\ LaserSets'
<1>1. /\ {est', lastOdom', offset', first', odom'} \subseteq Int /\ At \in Int
      /\ known' \subseteq Lasers /\ DueNow \subseteq known'
  BY Scanned DEF ScanMeasured
<1>2. pfOdom' \in Int
  BY <1>1 DEF ScanMeasured, PoseOfUpdate
<1>3. resamples' \in 0..(Interval - 1)
  <2> DEFINE r == IF pfInit THEN resamples ELSE 0
  <2>1. r \in 0..(Interval - 1)
    BY AmclAssumption DEF TypeOK
  <2>2. resamples' = (r + 1) % Interval
    BY DEF ScanMeasured
  <2> QED
    BY <2>1, <2>2, Resampled
<1>4. due' \subseteq known'
  BY <1>1 DEF ScanMeasured
<1> QED
  BY <1>1, <1>2, <1>3, <1>4 DEF LaserSets

\* A scan that publishes nothing may save the pose.
LEMMA NothingNewType ==
  ASSUME TypeOK, NothingNew, At \in Int
  PROVE  {saved', tf', published'} \subseteq Int
<1>1. MapPose(At) \in Int
  BY DEF TypeOK, MapPose
<1> QED
  BY <1>1 DEF NothingNew, TypeOK

\* Every action keeps poses and offsets numbers.
LEMMA NumbersStep == TypeOK /\ Bookkeeping /\ [Next]_vars => Numbers'
<1> SUFFICES ASSUME TypeOK /\ Bookkeeping, [Next]_vars PROVE Numbers'
  OBVIOUS
<1> USE AmclAssumption DEF TypeOK, Numbers, Bookkeeping, Initialized, MapPose
<1>1. FirstMap => Numbers'
  BY HypothesisPlace DEF FirstMap, HandleMap
<1>2. AnotherMap => Numbers'
  BY HypothesisPlace DEF AnotherMap, HandleMap
<1>3. SetMap => Numbers'
  BY DEF SetMap, HandleMap
<1>4. InitialPose => Numbers'
  BY DEF InitialPose
<1>5. GlobalLocalization => Numbers'
  BY DEF GlobalLocalization
<1>6. NomotionUpdate => Numbers'
  BY DEF NomotionUpdate
<1>7. Reconfigure => Numbers'
  BY DEF Reconfigure
<1>8. ScanWithoutMap => Numbers'
  BY DEF ScanWithoutMap
<1>9. LaserUnknown => Numbers'
  BY DEF LaserUnknown
<1>10. OdometryUnknown => Numbers'
  BY DEF OdometryUnknown
<1>11. ScanNotNeeded => Numbers'
  BY Scanned, NothingNewType DEF ScanNotNeeded
<1>12. ScanBad => Numbers'
  BY Scanned DEF ScanBad
<1>13. ScanUsed => Numbers'
  BY Measured, NothingNewType DEF ScanUsed
<1>14. ScanPublished => Numbers'
  <2> SUFFICES ASSUME ScanPublished PROVE Numbers'
    OBVIOUS
  <2>1. {est', lastOdom', offset', first', odom', pfOdom'} \subseteq Int /\ At \in Int
    BY Measured DEF ScanPublished
  <2>2. published' \in Int /\ saved' \in Int
    BY <2>1 DEF ScanPublished
  <2>3. tf' \in Int
    <3>1. est' \in Int /\ At \in Int
      BY <2>1
    <3>2. tf' = est' - At
      BY DEF ScanPublished
    <3> QED
      BY <3>1, <3>2
  <2> QED
    BY <2>1, <2>2, <2>3
<1>15. ScanNotPublished => Numbers'
  <2> SUFFICES ASSUME ScanNotPublished PROVE Numbers'
    OBVIOUS
  <2>1. {est', lastOdom', offset', first', odom', pfOdom'} \subseteq Int
    BY Measured DEF ScanNotPublished
  <2>2. {published', tf', saved'} \subseteq Int
    BY <2>1 DEF ScanNotPublished
  <2> QED
    BY <2>1, <2>2
<1>16. TakeScan => Numbers'
  BY DEF TakeScan
<1>17. Move => Numbers'
  BY DEF Move
<1>18. Interrupted => Numbers'
  BY DEF Interrupted
<1>19. Killed => Numbers'
  BY DEF Killed
<1>20. Restart => Numbers'
  BY DEF Restart, Started
<1>21. UNCHANGED vars => Numbers'
  OBVIOUS
<1> QED
  BY <1>1, <1>2, <1>3, <1>4, <1>5, <1>6, <1>7, <1>8, <1>9, <1>10, <1>11, <1>12, <1>13, <1>14,
     <1>15, <1>16, <1>17, <1>18, <1>19, <1>20, <1>21 DEF Next, LaserReceived

\* The waiting pose keeps its type.
LEMMA HypothesisStep == TypeOK /\ [Next]_vars => Hypothesis'
<1> SUFFICES ASSUME TypeOK, [Next]_vars PROVE Hypothesis'
  OBVIOUS
<1> USE DEF TypeOK, Hypothesis, Spend, Initialized, Received, ScanBegins, ScanMeasured,
        NothingNew
<1>1. FirstMap => Hypothesis'
  BY DEF FirstMap, HandleMap
<1>2. AnotherMap => Hypothesis'
  BY DEF AnotherMap, HandleMap
<1>3. SetMap => Hypothesis'
  BY DEF SetMap, HandleMap
<1>4. InitialPose => Hypothesis'
  BY DEF InitialPose
<1>5. GlobalLocalization => Hypothesis'
  BY DEF GlobalLocalization
<1>6. NomotionUpdate => Hypothesis'
  BY DEF NomotionUpdate
<1>7. Reconfigure => Hypothesis'
  BY DEF Reconfigure
<1>8. ScanWithoutMap => Hypothesis'
  BY DEF ScanWithoutMap
<1>9. LaserUnknown => Hypothesis'
  BY DEF LaserUnknown
<1>10. OdometryUnknown => Hypothesis'
  BY DEF OdometryUnknown
<1>11. ScanNotNeeded => Hypothesis'
  BY DEF ScanNotNeeded
<1>12. ScanBad => Hypothesis'
  BY DEF ScanBad
<1>13. ScanUsed => Hypothesis'
  BY DEF ScanUsed
<1>14. ScanPublished => Hypothesis'
  BY DEF ScanPublished
<1>15. ScanNotPublished => Hypothesis'
  BY DEF ScanNotPublished
<1>16. TakeScan => Hypothesis'
  BY DEF TakeScan
<1>17. Move => Hypothesis'
  BY DEF Move
<1>18. Interrupted => Hypothesis'
  BY DEF Interrupted
<1>19. Killed => Hypothesis'
  BY DEF Killed
<1>20. Restart => Hypothesis'
  BY DEF Restart, Started
<1>21. UNCHANGED vars => Hypothesis'
  OBVIOUS
<1> QED
  BY <1>1, <1>2, <1>3, <1>4, <1>5, <1>6, <1>7, <1>8, <1>9, <1>10, <1>11, <1>12, <1>13, <1>14,
     <1>15, <1>16, <1>17, <1>18, <1>19, <1>20, <1>21 DEF Next, LaserReceived

\* Only known lasers are due, and the count of scans stays below the interval.
LEMMA LasersStep == TypeOK /\ [Next]_vars => LaserSets'
<1> SUFFICES ASSUME TypeOK, [Next]_vars PROVE LaserSets'
  OBVIOUS
<1> USE AmclAssumption DEF TypeOK, LaserSets, LasersForgotten, KnownNow, DueBefore,
        Received, ScanMeasured
<1>1. FirstMap => LaserSets'
  BY DEF FirstMap, HandleMap
<1>2. AnotherMap => LaserSets'
  BY DEF AnotherMap, HandleMap
<1>3. SetMap => LaserSets'
  BY DEF SetMap, HandleMap
<1>4. InitialPose => LaserSets'
  BY DEF InitialPose
<1>5. GlobalLocalization => LaserSets'
  BY DEF GlobalLocalization
<1>6. NomotionUpdate => LaserSets'
  BY DEF NomotionUpdate
<1>7. Reconfigure => LaserSets'
  BY DEF Reconfigure
<1>8. ScanWithoutMap => LaserSets'
  BY DEF ScanWithoutMap
<1>9. LaserUnknown => LaserSets'
  BY DEF LaserUnknown
<1>10. OdometryUnknown => LaserSets'
  BY ScanPlace DEF OdometryUnknown
<1>11. ScanNotNeeded => LaserSets'
  BY Scanned DEF ScanNotNeeded
<1>12. ScanBad => LaserSets'
  <2> SUFFICES ASSUME ScanBad PROVE LaserSets'
    OBVIOUS
  <2>1. resamples' \in 0..(Interval - 1)
    BY DEF ScanBad
  <2>2. known' \subseteq Lasers /\ due' \subseteq known'
    BY Scanned DEF ScanBad
  <2> QED
    BY <2>1, <2>2
<1>13. ScanUsed => LaserSets'
  BY Measured DEF ScanUsed
<1>14. ScanPublished => LaserSets'
  BY Measured DEF ScanPublished
<1>15. ScanNotPublished => LaserSets'
  BY Measured DEF ScanNotPublished
<1>16. TakeScan => LaserSets'
  BY DEF TakeScan
<1>17. Move => LaserSets'
  BY DEF Move
<1>18. Interrupted => LaserSets'
  BY DEF Interrupted
<1>19. Killed => LaserSets'
  BY DEF Killed
<1>20. Restart => LaserSets'
  BY DEF Restart, Started
<1>21. UNCHANGED vars => LaserSets'
  OBVIOUS
<1> QED
  BY <1>1, <1>2, <1>3, <1>4, <1>5, <1>6, <1>7, <1>8, <1>9, <1>10, <1>11, <1>12, <1>13, <1>14,
     <1>15, <1>16, <1>17, <1>18, <1>19, <1>20, <1>21 DEF Next, LaserReceived

\* The scan under way keeps its type.
LEMMA ScanTypeStep == TypeOK /\ Bookkeeping /\ [Next]_vars => ScanType'
<1> SUFFICES ASSUME TypeOK /\ Bookkeeping, [Next]_vars PROVE ScanType'
  OBVIOUS
<1> USE AmclAssumption DEF TypeOK, ScanType, Bookkeeping, Spend, Received, ScanBegins,
        ScanMeasured, NothingNew
<1>1. FirstMap => ScanType'
  BY DEF FirstMap, HandleMap
<1>2. AnotherMap => ScanType'
  BY DEF AnotherMap, HandleMap
<1>3. SetMap => ScanType'
  BY DEF SetMap, HandleMap
<1>4. InitialPose => ScanType'
  BY DEF InitialPose
<1>5. GlobalLocalization => ScanType'
  BY DEF GlobalLocalization
<1>6. NomotionUpdate => ScanType'
  BY DEF NomotionUpdate
<1>7. Reconfigure => ScanType'
  BY DEF Reconfigure
<1>8. ScanWithoutMap => ScanType'
  BY DEF ScanWithoutMap
<1>9. LaserUnknown => ScanType'
  BY DEF LaserUnknown
<1>10. OdometryUnknown => ScanType'
  BY DEF OdometryUnknown
<1>11. ScanNotNeeded => ScanType'
  BY DEF ScanNotNeeded
<1>12. ScanBad => ScanType'
  BY DEF ScanBad
<1>13. ScanUsed => ScanType'
  BY DEF ScanUsed
<1>14. ScanPublished => ScanType'
  BY DEF ScanPublished
<1>15. ScanNotPublished => ScanType'
  BY DEF ScanNotPublished
<1>16. TakeScan => ScanType'
  BY DEF TakeScan
<1>17. Move => ScanType'
  BY DEF Move
<1>18. Interrupted => ScanType'
  BY DEF Interrupted
<1>19. Killed => ScanType'
  BY DEF Killed
<1>20. Restart => ScanType'
  BY DEF Restart, Started
<1>21. UNCHANGED vars => ScanType'
  OBVIOUS
<1> QED
  BY <1>1, <1>2, <1>3, <1>4, <1>5, <1>6, <1>7, <1>8, <1>9, <1>10, <1>11, <1>12, <1>13, <1>14,
     <1>15, <1>16, <1>17, <1>18, <1>19, <1>20, <1>21 DEF Next, LaserReceived

\* The bounds and the end of the run before keep their types.
LEMMA BookkeepingStep == TypeOK /\ Bookkeeping /\ [Next]_vars => Bookkeeping'
<1> SUFFICES ASSUME TypeOK, Bookkeeping, [Next]_vars PROVE Bookkeeping'
  OBVIOUS
<1>1. ASSUME UNCHANGED <<used, odom>>, before' \in {before, <<>>}
      PROVE  Bookkeeping'
  BY <1>1 DEF Bookkeeping
<1>2. ASSUME NEW what \in {"calls", "faults", "stops"}, NEW most, Spend(what, most),
             UNCHANGED odom, before' \in {before, <<>>}
      PROVE  Bookkeeping'
  <2>1. /\ used' \in [{"moves", "calls", "faults", "stops"} -> Nat]
        /\ used'.moves = used.moves
    BY <1>2 DEF Bookkeeping, Spend
  <2> QED
    BY <1>2, <2>1 DEF Bookkeeping
<1>3. CASE FirstMap \/ ScanWithoutMap \/ TakeScan \/ Restart
  <2>1. UNCHANGED <<used, odom>> /\ before' \in {before, <<>>}
    BY <1>3 DEF FirstMap, HandleMap, ScanWithoutMap, TakeScan, Restart
  <2> QED
    BY <1>1, <2>1
<1>4. CASE AnotherMap \/ SetMap \/ InitialPose \/ GlobalLocalization \/ NomotionUpdate
           \/ Reconfigure
  <2>1. /\ Spend("calls", MaxCalls) /\ UNCHANGED odom
        /\ before' \in {before, <<>>}
    BY <1>4 DEF AnotherMap, SetMap, HandleMap, InitialPose, GlobalLocalization,
           NomotionUpdate, Reconfigure, historyVars
  <2> QED
    BY <1>2, <2>1
<1>5. CASE LaserUnknown \/ OdometryUnknown \/ ScanBad \/ ScanNotPublished
  <2>1. Spend("faults", MaxFaults) /\ UNCHANGED <<odom, before>>
    BY <1>5 DEF LaserUnknown, OdometryUnknown, ScanBad, ScanNotPublished,
           ScanMeasured, ScanBegins, historyVars
  <2> QED
    BY <1>2, <2>1
<1>6. CASE ScanNotNeeded \/ ScanUsed \/ ScanPublished
  <2>1. UNCHANGED <<used, odom, before>>
    BY <1>6 DEF ScanNotNeeded, ScanUsed, ScanPublished, ScanMeasured, ScanBegins
  <2> QED
    BY <1>1, <2>1
<1>7. CASE Move
  <2>1. /\ Spend("moves", MaxMoves) /\ odom' = odom + 1 /\ UNCHANGED before
    BY <1>7 DEF Move, historyVars
  <2>2. /\ used' \in [{"moves", "calls", "faults", "stops"} -> Nat]
        /\ used'.moves = used.moves + 1 /\ used.moves < MaxMoves
    BY <2>1 DEF Bookkeeping, Spend
  <2> QED
    BY <2>1, <2>2, AmclAssumption DEF Bookkeeping
<1>8. CASE Killed
  BY <1>2, <1>8 DEF Killed
<1>9. CASE Interrupted
  <2>1. /\ Spend("stops", MaxStops) /\ UNCHANGED odom
        /\ before' \in {<<[offset |-> offset, odom |-> lastOdom]>>, <<>>}
    BY <1>9 DEF Interrupted
  <2>2. offset \in Int /\ lastOdom \in Int
    BY DEF TypeOK
  <2>3. /\ used' \in [{"moves", "calls", "faults", "stops"} -> Nat]
        /\ used'.moves = used.moves
    BY <2>1 DEF Bookkeeping, Spend
  <2> QED
    BY <2>1, <2>2, <2>3 DEF Bookkeeping
<1>10. CASE UNCHANGED vars
  BY <1>1, <1>10 DEF vars, historyVars
<1> QED
  BY <1>3, <1>4, <1>5, <1>6, <1>7, <1>8, <1>9, <1>10 DEF Next, LaserReceived

\* A scan that is not needed finds the filter initialized.
LEMMA NotNeeded == ScanNotNeeded => pfInit
BY DEF ScanNotNeeded, ScanBegins, DueNow, KnownNow

\* A measurement leaves the offset between the filter and odometry as it was.
LEMMA OffsetMeasured ==
  ASSUME TypeOK, OffsetKept, ScanMeasured
  PROVE  /\ up' /\ map' /\ pfInit' /\ pfOdom' = At /\ (~pfInit => ~fresh)
         /\ {est', At, offset'} \subseteq Int
         /\ ~twice => est' - At = offset'
         /\ ~twice /\ fresh => tf = offset'
<1>1. /\ up /\ map /\ up' = up /\ map' = map /\ pfInit' = TRUE /\ pfOdom' = At
      /\ est' = IF pfInit THEN est + Delta ELSE est
      /\ IF pfInit THEN offset' = offset ELSE offset' = est - At
  BY DEF ScanMeasured, ScanBegins, Received, PoseOfUpdate
<1>2. {est', At, offset'} \subseteq Int /\ {est, pfOdom, offset} \subseteq Int
  BY Measured DEF TypeOK
<1>3. ~twice => est' - At = offset'
  BY <1>1, <1>2 DEF OffsetKept, Delta
<1>4. ~pfInit => ~fresh
  BY <1>1 DEF OffsetKept
<1>5. ~twice /\ fresh => tf = offset'
  BY <1>1, <1>4 DEF OffsetKept
<1> QED
  BY <1>1, <1>2, <1>3, <1>4, <1>5

\* The offset survives every step but those that set another one.
LEMMA OffsetStep == TypeOK /\ OffsetKept /\ [Next]_vars => OffsetKept'
<1> SUFFICES ASSUME TypeOK /\ OffsetKept, [Next]_vars PROVE OffsetKept'
  OBVIOUS
<1> USE DEF TypeOK, OffsetKept, Initialized, Received, NothingNew
<1>1. FirstMap => OffsetKept'
  BY DEF FirstMap, HandleMap
<1>2. AnotherMap => OffsetKept'
  BY DEF AnotherMap, HandleMap
<1>3. SetMap => OffsetKept'
  BY DEF SetMap, HandleMap
<1>4. InitialPose => OffsetKept'
  BY DEF InitialPose
<1>5. GlobalLocalization => OffsetKept'
  BY DEF GlobalLocalization
<1>6. NomotionUpdate => OffsetKept'
  BY DEF NomotionUpdate
<1>7. Reconfigure => OffsetKept'
  BY DEF Reconfigure
<1>8. ScanWithoutMap => OffsetKept'
  BY DEF ScanWithoutMap
<1>9. LaserUnknown => OffsetKept'
  BY DEF LaserUnknown
<1>10. OdometryUnknown => OffsetKept'
  BY DEF OdometryUnknown
<1>11. ScanNotNeeded => OffsetKept'
  BY Scanned, NotNeeded DEF ScanNotNeeded, ScanBegins
<1>12. ScanBad => OffsetKept'
  BY Scanned DEF ScanBad, ScanBegins, Delta
<1>13. ScanUsed => OffsetKept'
  BY OffsetMeasured DEF ScanUsed, ScanMeasured
<1>14. ScanPublished => OffsetKept'
  BY OffsetMeasured DEF ScanPublished, ScanMeasured
<1>15. ScanNotPublished => OffsetKept'
  BY OffsetMeasured DEF ScanNotPublished, ScanMeasured
<1>16. TakeScan => OffsetKept'
  BY DEF TakeScan
<1>17. Move => OffsetKept'
  BY DEF Move
<1>18. Interrupted => OffsetKept'
  BY DEF Interrupted
<1>19. Killed => OffsetKept'
  BY DEF Killed
<1>20. Restart => OffsetKept'
  BY DEF Restart, Started
<1>21. UNCHANGED vars => OffsetKept'
  OBVIOUS
<1> QED
  BY <1>1, <1>2, <1>3, <1>4, <1>5, <1>6, <1>7, <1>8, <1>9, <1>10, <1>11, <1>12, <1>13, <1>14,
     <1>15, <1>16, <1>17, <1>18, <1>19, <1>20, <1>21 DEF Next, LaserReceived

\* The first scan turns the pose of the run before into the offset of this one.
LEMMA EndScanned ==
  ASSUME AmclInv, ScanBegins(TRUE) \/ ScanBegins(FALSE)
  PROVE  EndKept'
<1>1. up /\ up' = up /\ map /\ map' = map /\ pfInit' = TRUE /\ before' = before
  BY DEF ScanBegins, Received
<1>2. At \in Int /\ est \in Int /\ offset \in Int /\ first \in Int
  BY Scanned DEF AmclInv, TypeOK
<1>3. before # <<>> => offset' + first' = End
  <2>1. CASE pfInit
    BY <1>1, <2>1 DEF AmclInv, EndKept, ScanBegins
  <2>2. CASE ~pfInit
    <3>1. offset' = est - At /\ first' = At
      BY <2>2 DEF ScanBegins
    <3>2. before # <<>> => est = End
      BY <1>1, <2>2 DEF AmclInv, EndKept
    <3> QED
      BY <3>1, <3>2, <1>2
  <2> QED
    BY <2>1, <2>2
<1> QED
  BY <1>1, <1>3 DEF EndKept, End

\* The pose of the run before is handed on.
LEMMA EndStep == AmclInv /\ [Next]_vars => EndKept'
<1> SUFFICES ASSUME AmclInv, [Next]_vars PROVE EndKept'
  OBVIOUS
<1> USE DEF AmclInv, TypeOK, Bookkeeping, OffsetKept, EndKept, End, Initialized, Received,
        ScanMeasured, MapPose
<1>1. FirstMap => EndKept'
  BY DEF FirstMap, HandleMap
<1>2. AnotherMap => EndKept'
  BY DEF AnotherMap, HandleMap
<1>3. SetMap => EndKept'
  BY DEF SetMap, HandleMap
<1>4. InitialPose => EndKept'
  BY DEF InitialPose
<1>5. GlobalLocalization => EndKept'
  BY DEF GlobalLocalization
<1>6. NomotionUpdate => EndKept'
  BY DEF NomotionUpdate
<1>7. Reconfigure => EndKept'
  BY DEF Reconfigure
<1>8. ScanWithoutMap => EndKept'
  BY DEF ScanWithoutMap
<1>9. LaserUnknown => EndKept'
  BY DEF LaserUnknown
<1>10. OdometryUnknown => EndKept'
  BY DEF OdometryUnknown
<1>11. ScanNotNeeded => EndKept'
  BY EndScanned DEF ScanNotNeeded
<1>12. ScanBad => EndKept'
  BY EndScanned DEF ScanBad
<1>13. ScanUsed => EndKept'
  BY EndScanned DEF ScanUsed
<1>14. ScanPublished => EndKept'
  BY EndScanned DEF ScanPublished
<1>15. ScanNotPublished => EndKept'
  BY EndScanned DEF ScanNotPublished
<1>16. TakeScan => EndKept'
  BY DEF TakeScan
<1>17. Move => EndKept'
  BY DEF Move
<1>18. Interrupted => EndKept'
  BY DEF Interrupted
<1>19. Killed => EndKept'
  BY DEF Killed
<1>20. Restart => EndKept'
  BY DEF Restart, Started
<1>21. UNCHANGED vars => EndKept'
  OBVIOUS
<1> QED
  BY <1>1, <1>2, <1>3, <1>4, <1>5, <1>6, <1>7, <1>8, <1>9, <1>10, <1>11, <1>12, <1>13, <1>14,
     <1>15, <1>16, <1>17, <1>18, <1>19, <1>20, <1>21 DEF Next, LaserReceived

-----------------------------------------------------------------------------
(* The theorems.                                                             *)

\* A node that was never started before satisfies the invariant.
LEMMA InvInit == Init => AmclInv
<1> SUFFICES ASSUME Init PROVE AmclInv
  OBVIOUS
<1> USE AmclAssumption DEF Init
<1>1. TypeOK
  <2>1. Flags
    BY Zenon DEF Flags
  <2>2. Numbers
    BY DEF Numbers
  <2>3. Hypothesis /\ LaserSets /\ ScanType
    BY DEF Hypothesis, LaserSets, ScanType
  <2> QED
    BY <2>1, <2>2, <2>3 DEF TypeOK, Flags, Numbers, Hypothesis, LaserSets, ScanType
<1>2. Bookkeeping
  BY DEF Bookkeeping
<1>3. OffsetKept /\ EndKept
  BY DEF OffsetKept, EndKept
<1> QED
  BY <1>1, <1>2, <1>3 DEF AmclInv

\* Every step preserves the invariant.
LEMMA InvStep == AmclInv /\ [Next]_vars => AmclInv'
<1> SUFFICES ASSUME AmclInv, [Next]_vars PROVE AmclInv'
  OBVIOUS
<1>1. TypeOK'
  <2>1. Flags' /\ Numbers' /\ Hypothesis' /\ LaserSets' /\ ScanType'
    BY FlagsStep, NumbersStep, HypothesisStep, LasersStep, ScanTypeStep DEF AmclInv
  <2> QED
    BY <2>1 DEF TypeOK, Flags, Numbers, Hypothesis, LaserSets, ScanType
<1>2. Bookkeeping'
  BY BookkeepingStep DEF AmclInv
<1>3. OffsetKept'
  BY OffsetStep DEF AmclInv
<1>4. EndKept'
  BY EndStep
<1> QED
  BY <1>1, <1>2, <1>3, <1>4 DEF AmclInv

(***************************************************************************)
(* What laserReceived adds to the particles is what the robot has moved:   *)
(* small motions, several lasers and forced updates lose or repeat none.   *)
(***************************************************************************)
THEOREM MotionIsCounted == Spec => []MotionCountedOnce
<1>1. AmclInv => MotionCountedOnce
  BY DEF AmclInv, OffsetKept, MotionCountedOnce
<1> QED
  BY <1>1, InvInit, InvStep, PTL DEF Spec

(***************************************************************************)
(* What sigintHandler saves is where the next run begins, less the motion  *)
(* while nobody listened to odometry.                                      *)
(***************************************************************************)
THEOREM RunsResume == Spec => []RestartResumes
<1>1. AmclInv => RestartResumes
  <2> SUFFICES ASSUME AmclInv, up, pfInit, before # <<>>
               PROVE  offset = before[1].offset - (first - before[1].odom)
    BY DEF RestartResumes
  <2>1. offset \in Int /\ first \in Int
    BY DEF AmclInv, TypeOK
  <2>2. before[1].offset \in Int /\ before[1].odom \in Int
    BY DEF AmclInv, Bookkeeping
  <2>3. offset + first = before[1].offset + before[1].odom
    BY DEF AmclInv, EndKept, End
  <2> QED
    BY <2>1, <2>2, <2>3
<1> QED
  BY <1>1, InvInit, InvStep, PTL DEF Spec

-----------------------------------------------------------------------------
(***************************************************************************)
(* The costmap.  A change to a layer is announced to the update thread: by *)
(* a flag and the part that a message replaced, by extra bounds, or by the *)
(* bounds that the update under way has collected.  A cell is pending as   *)
(* long as its change is not taken up.  The master map is right where      *)
(* nothing is pending within the radius of inflation.  That is a statement *)
(* about two directions: a lethal cell which is not pending has spread its *)
(* costs, wherever they reach; and a cost was spread by a lethal cell that *)
(* is still there, if nothing is pending as near as the radius - the cells *)
(* that only the rounded radius reaches make the one exception.            *)
(***************************************************************************)

HIDE DEF vars, filterVars, laserVars, outVars, historyVars

\* A point, and a cell, within bounds.
Within(p, a) == a.lo <= p /\ p <= a.hi
In(c, a) == CellOf(a.lo) <= c /\ c <= CellOf(a.hi)

\* The update under way computes the whole map.
Whole == upd = "costs" /\ Window(bounds) = Cells

\* The cells whose change has not yet been taken up.
Pending ==
  {c \in Cells :
     \/ c \in unread
     \/ Collecting /\ In(c, bounds)
     \/ upd = "costs" /\ In(c, last)
     \/ Whole \/ extra \/ exec = "clearing"}

\* The cells that an update has collected, or will, by what the static layer says is new.
Told ==
  {c \in Cells :
     \/ Collecting /\ In(c, bounds)
     \/ Writing /\ c \in Area(incoming.x, incoming.width)
     \/ ~Overwriting /\ hasUpdated /\ c \in Area(mapX, mapWidth)}

\* What the layers below the inflation make of a cell.
Base(c) == Layered(static, obstacle, c)

\* What the update thread, and the callback in between, have in hand.
CallsInPlace ==
  /\ cb = "restart" => upd = "none"
  /\ cb \in {"map", "mapWidth", "received"} => incoming = WholeGrid
  /\ Overwriting => mapX = incoming.x
  /\ cb \in {"received", "flag"} => mapWidth = incoming.width
  /\ upd = "inflate" => Within(at, bounds)
  /\ upd = "costs" => Within(at, last)
  /\ upd = "costs" /\ ~reinflate =>
       Whole \/ (bounds.lo <= last.lo - radius /\ last.hi + radius <= bounds.hi)

\* What is new in the grid is told of, or it is known to be lost.
UnreadTold ==
  /\ ~mapReceived => unread = Cells
  /\ mapReceived /\ ~lost => unread \subseteq Told

\* The lethal cells of the master map are those of the layers ...
Obstacles ==
  ~reinflate => \A c \in Cells \ Pending : master[c] = Lethal <=> Base(c) = Lethal

\* ... they have spread their costs ...
Inflated ==
  ~reinflate =>
    \A x \in Cells \ Pending : \A c \in Cells :
      Base(x) = Lethal /\ Distance(c, x) <= CellDistance(radius)
        => CostAt(Distance(c, x)) <= master[c]

\* ... and no other costs are there, but those that only the rounded radius reaches.
Spread(c, cost) ==
  \E x \in Cells :
    Resolution * Distance(c, x) <= radius /\ Base(x) = Lethal /\ cost = CostAt(Distance(c, x))
Outermost(cost) == radius % Resolution # 0 /\ cost = CostAt(CellDistance(radius))
Justified ==
  ~reinflate =>
    \A c \in Cells :
      (\A d \in Pending : Resolution * Distance(c, d) > radius)
        => master[c] = Free \/ Outermost(master[c]) \/ Spread(c, master[c])

-----------------------------------------------------------------------------
(* Lengths in cells.                                                         *)

LEMMA Cancel ==
  ASSUME NEW n \in Nat, n > 0, NEW a \in Int, NEW b \in Int, n * a < n * b
  PROVE  a < b
<1> SUFFICES ASSUME b <= a PROVE FALSE
  OBVIOUS
<1>1. a - b \in Nat
  OBVIOUS
<1>2. n * (a - b) >= 0
  BY <1>1
<1>3. n * (a - b) = n * a - n * b
  OBVIOUS
<1> QED
  BY <1>2, <1>3

\* The cell of a point, without division.
LEMMA CellOfValue ==
  ASSUME NEW p \in Int
  PROVE  /\ Resolution \in Nat /\ Resolution > 0 /\ CellOf(p) \in Int
         /\ Resolution * CellOf(p) <= p /\ p < Resolution * CellOf(p) + Resolution
<1>1. Resolution \in Nat /\ Resolution > 0
  BY CostmapAssumption DEF Resolution
<1>2. p = Resolution * (p \div Resolution) + (p % Resolution)
      /\ p % Resolution \in 0..(Resolution - 1) /\ p \div Resolution \in Int
  BY <1>1
<1> QED
  BY <1>1, <1>2 DEF CellOf

LEMMA CellOfBound ==
  ASSUME NEW p \in Int, NEW c \in Int
  PROVE  /\ Resolution * c <= p => c <= CellOf(p)
         /\ p < Resolution * c + Resolution => CellOf(p) <= c
<1>1. /\ Resolution \in Nat /\ Resolution > 0 /\ CellOf(p) \in Int
      /\ Resolution * CellOf(p) <= p /\ p < Resolution * CellOf(p) + Resolution
  BY CellOfValue
<1>2. ASSUME Resolution * c <= p
      PROVE  c <= CellOf(p)
  <2>1. Resolution * c < Resolution * (CellOf(p) + 1)
    BY <1>1, <1>2
  <2>2. c < CellOf(p) + 1
    BY <1>1, <2>1, Cancel
  <2> QED
    BY <1>1, <2>2
<1>3. ASSUME p < Resolution * c + Resolution
      PROVE  CellOf(p) <= c
  <2>1. Resolution * CellOf(p) < Resolution * (c + 1)
    BY <1>1, <1>3
  <2>2. CellOf(p) < c + 1
    BY <1>1, <2>1, Cancel
  <2> QED
    BY <1>1, <2>2
<1> QED
  BY <1>2, <1>3

LEMMA CellOfGrows ==
  ASSUME NEW p \in Int, NEW q \in Int, p <= q
  PROVE  CellOf(p) <= CellOf(q)
<1>1. Resolution \in Nat /\ CellOf(p) \in Int /\ Resolution * CellOf(p) <= p
  BY CellOfValue
<1>2. Resolution * CellOf(p) <= q
  BY <1>1
<1> QED
  BY <1>1, <1>2, CellOfBound

\* A length of whole cells carries as many cells on.
LEMMA Reach ==
  ASSUME NEW p \in Int, NEW r \in Nat, NEW d \in Nat, Resolution * d <= r
  PROVE  CellOf(p - r) <= CellOf(p) - d /\ CellOf(p) + d <= CellOf(p + r)
<1>1. /\ Resolution \in Nat /\ Resolution > 0 /\ CellOf(p) \in Int
      /\ Resolution * CellOf(p) <= p /\ p < Resolution * CellOf(p) + Resolution
  BY CellOfValue
<1>2. p - r < Resolution * (CellOf(p) - d) + Resolution
  BY <1>1
<1>3. Resolution * (CellOf(p) + d) <= p + r
  BY <1>1
<1> QED
  BY <1>1, <1>2, <1>3, CellOfBound

\* The radius in cells reaches at least as far as the radius; only its last cell may lie
\* farther away, and only if the radius was rounded.
LEMMA Rounded ==
  ASSUME NEW r \in Nat
  PROVE  /\ CellDistance(r) \in Nat
         /\ \A d \in Nat : d > CellDistance(r) => Resolution * d > r
         /\ \A d \in Nat : d <= CellDistance(r) /\ Resolution * d > r
              => d = CellDistance(r) /\ r % Resolution # 0
<1> DEFINE k == CellDistance(r)
<1>1. Resolution \in Nat /\ Resolution > 0
  BY CellOfValue
<1>2. r + Resolution - 1 \in Int /\ k = CellOf(r + Resolution - 1)
  BY <1>1 DEF CellDistance, CellOf
<1>3. /\ k \in Int /\ Resolution * k <= r + Resolution - 1
      /\ r + Resolution - 1 < Resolution * k + Resolution
  BY <1>2, CellOfValue
<1> HIDE DEF k
<1>4. k \in Nat
  <2>1. Resolution * 0 < Resolution * (k + 1)
    BY <1>1, <1>3
  <2>2. 0 < k + 1
    BY <1>1, <1>3, <2>1, Cancel
  <2> QED
    BY <1>3, <2>2
<1>5. ASSUME NEW d \in Nat, d > k
      PROVE  Resolution * d > r
  <2>1. d - k - 1 \in Nat
    BY <1>3, <1>5
  <2>2. Resolution * (d - k - 1) >= 0
    BY <1>1, <2>1
  <2>3. Resolution * (d - k - 1) = Resolution * d - Resolution * k - Resolution
    BY <1>1, <1>3
  <2> QED
    BY <1>1, <1>3, <2>2, <2>3
<1>6. ASSUME NEW d \in Nat, d <= k, Resolution * d > r
      PROVE  d = k /\ r % Resolution # 0
  <2>1. Resolution * k < Resolution * (d + 1)
    BY <1>1, <1>3, <1>6
  <2>2. k < d + 1
    BY <1>1, <1>3, <2>1, Cancel
  <2>3. d = k
    BY <1>3, <1>6, <2>2
  <2>4. ASSUME r % Resolution = 0
        PROVE  FALSE
    <3>1. r = Resolution * (r \div Resolution) /\ r \div Resolution \in Int
      BY <1>1, <2>4
    <3>2. Resolution * k < Resolution * ((r \div Resolution) + 1)
      BY <1>1, <1>3, <3>1
    <3>3. k < (r \div Resolution) + 1
      BY <1>1, <1>3, <3>1, <3>2, Cancel
    <3>4. r \div Resolution < k
      <4>1. Resolution * (r \div Resolution) < Resolution * k
        BY <1>6, <2>3, <3>1
      <4> QED
        BY <1>1, <1>3, <3>1, <4>1, Cancel
    <3> QED
      BY <1>3, <3>1, <3>3, <3>4
  <2> QED
    BY <2>3, <2>4
<1> QED
  BY <1>4, <1>5, <1>6 DEF k

\* A greater radius is no fewer cells.
LEMMA CellDistanceGrows ==
  ASSUME NEW r \in Nat, NEW s \in Nat, r <= s
  PROVE  CellDistance(r) <= CellDistance(s)
<1>1. Resolution \in Nat /\ Resolution > 0
  BY CellOfValue
<1>2. /\ CellDistance(r) = CellOf(r + Resolution - 1)
      /\ CellDistance(s) = CellOf(s + Resolution - 1)
  BY <1>1 DEF CellDistance, CellOf
<1> QED
  BY <1>1, <1>2, CellOfGrows

LEMMA OfTwo ==
  ASSUME NEW a \in Int, NEW b \in Int
  PROVE  /\ Max({a, b}) = IF a < b THEN b ELSE a
         /\ Min({a, b}) = IF a < b THEN a ELSE b
BY DEF Max, Min

LEMMA Constant ==
  /\ Size \in Nat /\ Size > 2 /\ Resolution \in Nat /\ Resolution > 0
  /\ MaxRadius \in Nat /\ ClearRange \in Nat
  /\ CellDistance(MaxRadius) \in Nat
  /\ Lethal = CellDistance(MaxRadius) + 1 /\ Free = 0 /\ NoInfo = -1
  /\ Cells = 0..(Size - 1) /\ Costs = 0..Lethal
  /\ Resolution * Size \in Nat /\ Far \in Nat /\ Far > Resolution * Size
<1>1. Size \in Nat /\ Size > 2 /\ MaxRadius \in Nat /\ ClearRange \in Nat
  BY CostmapAssumption
<1>2. Resolution \in Nat /\ Resolution > 0
  BY CellOfValue
<1>3. Resolution * Size \in Nat
  BY <1>1, <1>2
<1>4. Far \in Nat /\ Far > Resolution * Size
  BY <1>1, <1>3 DEF Far
<1> QED
  BY <1>1, <1>2, <1>3, <1>4, Rounded DEF Lethal, Free, NoInfo, Cells, Costs

-----------------------------------------------------------------------------
(* Bounds and windows.                                                       *)

Bound == [lo : Int, hi : Int]

\* Joined bounds contain both, and a window is the cells within its bounds.
LEMMA Intervals ==
  ASSUME NEW a \in Bound, NEW b \in Bound
  PROVE  /\ Joined(a, b) \in Bound
         /\ \A p \in Int : Within(p, a) \/ Within(p, b) => Within(p, Joined(a, b))
         /\ \A c \in Cells : In(c, a) \/ In(c, b) => In(c, Joined(a, b))
         /\ Window(a) \subseteq Cells
         /\ \A c \in Cells : c \in Window(a) <=> In(c, a)
<1>1. a.lo \in Int /\ a.hi \in Int /\ b.lo \in Int /\ b.hi \in Int
  BY DEF Bound
<1>2. /\ Joined(a, b).lo = IF a.lo < b.lo THEN a.lo ELSE b.lo
      /\ Joined(a, b).hi = IF a.hi < b.hi THEN b.hi ELSE a.hi
  BY <1>1, OfTwo DEF Joined, Bounds
<1>3. Joined(a, b) \in Bound
  BY <1>1, OfTwo DEF Joined, Bounds, Bound
<1>4. /\ CellOf(a.lo) \in Int /\ CellOf(a.hi) \in Int /\ CellOf(b.lo) \in Int
      /\ CellOf(b.hi) \in Int /\ CellOf(Joined(a, b).lo) \in Int /\ CellOf(Joined(a, b).hi) \in Int
  BY <1>1, <1>2, CellOfValue
<1>5. \A c \in Cells : c \in Int /\ 0 <= c /\ c <= Size - 1
  BY Constant
<1>6. \A p \in Int : Within(p, a) \/ Within(p, b) => Within(p, Joined(a, b))
  BY <1>1, <1>2 DEF Within
<1>7. \A c \in Cells : In(c, a) \/ In(c, b) => In(c, Joined(a, b))
  <2> DEFINE j == Joined(a, b)
  <2>1. j.lo \in Int /\ j.hi \in Int /\ j.lo <= a.lo /\ j.lo <= b.lo /\ a.hi <= j.hi /\ b.hi <= j.hi
    BY <1>1, <1>2
  <2> HIDE DEF j
  <2>2. /\ CellOf(j.lo) <= CellOf(a.lo) /\ CellOf(j.lo) <= CellOf(b.lo)
        /\ CellOf(a.hi) <= CellOf(j.hi) /\ CellOf(b.hi) <= CellOf(j.hi)
    BY <1>1, <2>1, CellOfGrows
  <2> QED
    BY <1>4, <1>5, <2>2 DEF In, j
<1>8. Window(a) \subseteq Cells /\ \A c \in Cells : c \in Window(a) <=> In(c, a)
  <2> DEFINE x == CellOf(a.lo)
             y == CellOf(a.hi)
             n == Size - 1
  <2>1. n \in Int /\ Cells = 0..n
    BY Constant
  <2>2. x \in Int /\ y \in Int
    BY <1>4
  <2> DEFINE least == IF 0 < x THEN x ELSE 0
             greatest == IF n < y THEN n ELSE y
  <2>3. \A c \in Cells : In(c, a) <=> (x <= c /\ c <= y)
    BY DEF In
  <2> HIDE DEF x, y, n
  <2>4. Max({0, x}) = least
    BY <2>2, OfTwo
  <2>5. Min({n, y}) = greatest
    BY <2>1, <2>2, OfTwo
  <2>6. \A c \in Cells : c \in least..greatest <=> (x <= c /\ c <= y)
    BY <2>1, <2>2
  <2>7. least..greatest \subseteq Cells
    BY <2>1, <2>2
  <2>8. Window(a) = least..greatest
    BY <2>4, <2>5, Zenon DEF Window, x, y, n
  <2> HIDE DEF least, greatest
  <2> QED
    BY <2>3, <2>6, <2>7, <2>8
<1> QED
  BY <1>3, <1>6, <1>7, <1>8

\* The cell of a point.
LEMMA CellIn ==
  /\ \A p \in Places : p \in Int /\ CellOf(p) \in Cells
  /\ \A a \in Bound, p \in Int : Within(p, a) => In(CellOf(p), a)
<1>1. ASSUME NEW p \in Places
      PROVE  p \in Int /\ CellOf(p) \in Cells
  <2>1. p \in Int /\ 0 <= p /\ p < Resolution * Size
    BY <1>1, Constant DEF Places
  <2>2. Resolution * 0 <= p /\ p < Resolution * (Size - 1) + Resolution
    BY <2>1, Constant
  <2>3. 0 <= CellOf(p) /\ CellOf(p) <= Size - 1
    BY <2>1, <2>2, Constant, CellOfBound
  <2> QED
    BY <2>1, <2>3, Constant, CellOfValue
<1>2. \A a \in Bound, p \in Int : Within(p, a) => In(CellOf(p), a)
  BY CellOfGrows DEF Bound, Within, In
<1> QED
  BY <1>1, <1>2

\* Bounds from end to end of the map have every cell.
LEMMA EndToEnd ==
  ASSUME NEW a \in Bound, a.lo <= 0, Resolution * Size <= a.hi
  PROVE  (\A c \in Cells : In(c, a)) /\ Window(a) = Cells
<1>1. a.lo \in Int /\ a.hi \in Int
  BY DEF Bound
<1>2. a.lo < Resolution * 0 + Resolution
  BY <1>1, Constant
<1>3. CellOf(a.lo) <= 0 /\ Size <= CellOf(a.hi)
  BY <1>1, <1>2, Constant, CellOfBound
<1>4. CellOf(a.lo) \in Int /\ CellOf(a.hi) \in Int
  BY <1>1, CellOfValue
<1>5. \A c \in Cells : In(c, a)
  BY <1>3, <1>4, Constant DEF In
<1> QED
  BY <1>5, Intervals

LEMMA BoundTypes ==
  /\ WholeMap \in Bound /\ NoBounds \in Bound /\ AllBounds \in Bound
  /\ \A c \in Cells : In(c, WholeMap)
  /\ Window(AllBounds) = Cells
  /\ Area(WholeGrid.x, WholeGrid.width) = Cells
<1>1. WholeMap \in Bound /\ NoBounds \in Bound /\ AllBounds \in Bound
  BY Constant DEF WholeMap, NoBounds, AllBounds, Bounds, Bound
<1>2. /\ WholeMap.lo <= 0 /\ Resolution * Size <= WholeMap.hi
      /\ AllBounds.lo <= 0 /\ Resolution * Size <= AllBounds.hi
  BY Constant DEF WholeMap, AllBounds, Bounds
<1>3. Area(WholeGrid.x, WholeGrid.width) = Cells
  BY Constant DEF Area, WholeGrid
<1> QED
  BY <1>1, <1>2, <1>3, EndToEnd

-----------------------------------------------------------------------------
(* The layers and their inflation.                                           *)

\* CHOOSE finds the greatest element of a bounded set.
LEMMA GreatestExists ==
  ASSUME NEW n \in Nat, NEW S \in SUBSET (0..n), S # {}
  PROVE  Max(S) \in S /\ \A y \in S : y <= Max(S)
<1> DEFINE T == {n - x : x \in S}
           R == OpToRel(<, Nat)
<1>1. \A x \in S : x \in Int /\ n - x \in Nat /\ n - x \in T
  <2> TAKE x \in S
  <2>1. x \in 0..n
    OBVIOUS
  <2> QED
    BY <2>1
<1>2. T \subseteq Nat /\ T # {}
  BY <1>1
<1>3. PICK m \in T : \A y \in T : ~ (<<y, m>> \in R)
  BY <1>2, WFMin, NatLessThanWellFounded
<1>4. \A y \in T : ~ (y < m)
  BY <1>2, <1>3 DEF OpToRel
<1>5. PICK x \in S : m = n - x
  BY <1>3
<1>6. \A y \in S : x >= y
  <2> TAKE y \in S
  <2>1. ~ (n - y < m)
    BY <1>1, <1>4
  <2>2. x \in Int /\ y \in Int
    BY <1>1
  <2> HIDE DEF T
  <2> QED
    BY <1>5, <2>1, <2>2
<1>7. \A y \in S : y <= x
  BY <1>1, <1>6
<1> QED
  BY <1>1, <1>6, <1>7 DEF Max

Grid(static_, obstacle_) ==
  static_ \in [Cells -> {Free, Lethal}] /\ obstacle_ \in [Cells -> {NoInfo, Free, Lethal}]

LEMMA LayeredValue ==
  ASSUME NEW s, NEW o, Grid(s, o), NEW c \in Cells
  PROVE  Layered(s, o, c) \in {Free, Lethal}
<1>1. s[c] \in {0, Lethal} /\ o[c] \in {-1, 0, Lethal} /\ Lethal \in Nat /\ Lethal > 0
  BY Constant DEF Grid
<1> QED
  BY <1>1, Constant DEF Layered, Max

\* A radius of inflation in cells.
Reaches == 0..(Lethal - 1)

LEMMA ReachOf ==
  ASSUME NEW r \in 0..MaxRadius
  PROVE  r \in Nat /\ CellDistance(r) \in Reaches
<1>1. r \in Nat /\ r <= MaxRadius
  BY Constant
<1>2. CellDistance(r) \in Nat /\ CellDistance(r) <= CellDistance(MaxRadius)
  BY <1>1, Rounded, CellDistanceGrows, Constant
<1> QED
  BY <1>1, <1>2, Constant DEF Reaches

LEMMA Distances ==
  ASSUME NEW c \in Cells, NEW x \in Cells
  PROVE  /\ Distance(c, x) \in Nat /\ Distance(c, x) = Distance(x, c)
         /\ Distance(c, x) = 0 <=> c = x
         /\ Resolution * Distance(c, x) \in Nat
<1>1. /\ Distance(c, x) \in Nat /\ Distance(c, x) = Distance(x, c)
      /\ Distance(c, x) = 0 <=> c = x
  BY Constant DEF Distance
<1>2. Resolution * Distance(c, x) \in Nat
  BY <1>1, CellOfValue
<1> QED
  BY <1>1, <1>2

\* A cost falls with the distance, and is never that of a free cell.
LEMMA CostValue ==
  ASSUME NEW r \in Reaches, NEW d \in Nat, d <= r
  PROVE  /\ CostAt(d) \in 0..Lethal /\ CostAt(d) >= CostAt(r) /\ CostAt(r) > Free
         /\ CostAt(d) = Lethal <=> d = 0
         /\ CostAt(d) = CostAt(r) <=> d = r
BY Constant DEF CostAt, Reaches

\* Inflation is the greatest cost of the lethal cells nearby.
LEMMA InflationValue ==
  ASSUME NEW lethal \in SUBSET Cells, NEW r \in Reaches, NEW c \in Cells
  PROVE  /\ Inflation(lethal, r, c) \in 0..Lethal
         /\ \A x \in lethal :
              Distance(c, x) <= r => CostAt(Distance(c, x)) <= Inflation(lethal, r, c)
         /\ \/ Inflation(lethal, r, c) = Free
            \/ \E x \in lethal : /\ Distance(c, x) <= r
                                 /\ Inflation(lethal, r, c) = CostAt(Distance(c, x))
<1> DEFINE near == {x \in lethal : Distance(c, x) <= r}
           S == {Free} \cup {CostAt(Distance(c, l)) : l \in near}
<1>1. Inflation(lethal, r, c) = Max(S)
  BY DEF Inflation
<1>2. \A x \in near : CostAt(Distance(c, x)) \in 0..Lethal
  BY Distances, CostValue
<1>3. S \in SUBSET (0..Lethal) /\ S # {} /\ Lethal \in Nat
  BY <1>2, Constant
<1>4. Max(S) \in S /\ \A y \in S : y <= Max(S)
  BY <1>3, GreatestExists
<1> QED
  BY <1>1, <1>3, <1>4

\* What an update begins with, and the lethal cells that it inflates.
Begun(m, s, o, window) == [c \in Cells |-> IF c \in window THEN Layered(s, o, c) ELSE m[c]]
Sources(m, s, o, r, window) ==
  {c \in Cells : Begun(m, s, o, window)[c] = Lethal /\ \E w \in window : Distance(c, w) <= r}

\* An update leaves no less than it began with and what its sources spread, and no more.
Renewed(new, m, s, o, r, window) ==
  /\ new \in [Cells -> Costs]
  /\ \A c \in Cells : Begun(m, s, o, window)[c] <= new[c]
  /\ \A c \in Cells, x \in Sources(m, s, o, r, window) :
       Distance(c, x) <= r => CostAt(Distance(c, x)) <= new[c]
  /\ \A c \in Cells :
       \/ new[c] = Begun(m, s, o, window)[c] \/ new[c] = Free
       \/ \E x \in Sources(m, s, o, r, window) :
            Distance(c, x) <= r /\ new[c] = CostAt(Distance(c, x))

LEMMA UpdatedValue ==
  ASSUME NEW m \in [Cells -> Costs], NEW s, NEW o, Grid(s, o), NEW r \in Reaches,
         NEW window \in SUBSET Cells
  PROVE  Renewed(Updated(m, s, o, r, window), m, s, o, r, window)
<1> DEFINE base == Begun(m, s, o, window)
           k == Sources(m, s, o, r, window)
           new == Updated(m, s, o, r, window)
<1>1. new = [c \in Cells |-> Max({base[c], Inflation(k, r, c)})]
  BY DEF Updated, Begun, Sources
<1>2. \A c \in Cells : base[c] \in 0..Lethal
  BY LayeredValue, Constant DEF Begun
<1>3. k \in SUBSET Cells
  BY DEF Sources
<1> HIDE DEF base, k, new
<1>4. \A c \in Cells :
        /\ new[c] = IF base[c] < Inflation(k, r, c) THEN Inflation(k, r, c) ELSE base[c]
        /\ Inflation(k, r, c) \in 0..Lethal
  <2> TAKE c \in Cells
  <2>1. base[c] \in Int /\ Inflation(k, r, c) \in Int /\ Inflation(k, r, c) \in 0..Lethal
    BY <1>2, <1>3, InflationValue, Constant
  <2>2. Max({base[c], Inflation(k, r, c)}) =
          IF base[c] < Inflation(k, r, c) THEN Inflation(k, r, c) ELSE base[c]
    BY <2>1, OfTwo
  <2> QED
    BY <1>1, <2>1, <2>2
<1>5. new \in [Cells -> Costs]
  <2>1. \A c \in Cells : new[c] \in Costs
    BY <1>2, <1>4, Constant
  <2> QED
    BY <1>1, <2>1
<1>6. \A c \in Cells : base[c] <= new[c] /\ Inflation(k, r, c) <= new[c] /\ new[c] \in Int
  <2> TAKE c \in Cells
  <2>1. base[c] \in Int /\ Inflation(k, r, c) \in Int
    BY <1>2, <1>4, Constant
  <2> QED
    BY <1>4, <2>1
<1>7. \A c \in Cells, x \in k : Distance(c, x) <= r => CostAt(Distance(c, x)) <= new[c]
  <2> TAKE c \in Cells, x \in k
  <2> HAVE Distance(c, x) <= r
  <2>1. CostAt(Distance(c, x)) <= Inflation(k, r, c) /\ CostAt(Distance(c, x)) \in 0..Lethal
    BY <1>3, InflationValue, Distances, CostValue
  <2>2. CostAt(Distance(c, x)) \in Int /\ Inflation(k, r, c) \in Int
    BY <1>4, <2>1
  <2> QED
    BY <1>6, <2>1, <2>2
<1>8. \A c \in Cells : \/ new[c] = base[c] \/ new[c] = Free
                      \/ \E x \in k : Distance(c, x) <= r /\ new[c] = CostAt(Distance(c, x))
  BY <1>3, <1>4, InflationValue
<1> QED
  BY <1>5, <1>6, <1>7, <1>8 DEF base, k, new, Renewed

\* The same of a computation of the whole map.
LEMMA FullValue ==
  ASSUME NEW s, NEW o, Grid(s, o), NEW r \in Reaches, NEW c \in Cells
  PROVE  /\ FullMap(s, o, r)[c] \in 0..Lethal
         /\ \A x \in Cells : Layered(s, o, x) = Lethal /\ Distance(c, x) <= r
              => CostAt(Distance(c, x)) <= FullMap(s, o, r)[c]
         /\ \/ FullMap(s, o, r)[c] = Free
            \/ \E x \in Cells : /\ Layered(s, o, x) = Lethal /\ Distance(c, x) <= r
                                /\ FullMap(s, o, r)[c] = CostAt(Distance(c, x))
<1> DEFINE l == {x \in Cells : Layered(s, o, x) = Lethal}
<1>1. FullMap(s, o, r)[c] = Max({Layered(s, o, c), Inflation(l, r, c)})
  BY DEF FullMap
<1>2. Layered(s, o, c) \in {0, Lethal} /\ Lethal \in Nat
  BY LayeredValue, Constant
<1>3. /\ Inflation(l, r, c) \in 0..Lethal
      /\ \A x \in l : Distance(c, x) <= r => CostAt(Distance(c, x)) <= Inflation(l, r, c)
      /\ \/ Inflation(l, r, c) = Free
         \/ \E x \in l : Distance(c, x) <= r /\ Inflation(l, r, c) = CostAt(Distance(c, x))
  BY InflationValue
<1>4. Layered(s, o, c) = Lethal => Inflation(l, r, c) = Lethal
  <2> HAVE Layered(s, o, c) = Lethal
  <2>1. c \in l /\ Distance(c, c) = 0 /\ CostAt(0) = Lethal /\ 0 <= r
    BY Distances, CostValue, Constant DEF CostAt, Reaches
  <2> QED
    BY <1>2, <1>3, <2>1
<1>5. FullMap(s, o, r)[c] = Inflation(l, r, c)
  <2> HIDE DEF l
  <2>1. Max({Layered(s, o, c), Inflation(l, r, c)}) =
          IF Layered(s, o, c) < Inflation(l, r, c) THEN Inflation(l, r, c) ELSE Layered(s, o, c)
    BY <1>2, <1>3, OfTwo
  <2> QED
    BY <1>1, <1>2, <1>3, <1>4, <2>1
<1> QED
  BY <1>3, <1>5

-----------------------------------------------------------------------------
(* Steps that change no cell which was not announced.                        *)

Shown == Obstacles /\ Inflated /\ Justified
CostmapInv == CostmapTypeOK /\ CallsInPlace /\ UnreadTold /\ Shown

LEMMA Typed ==
  ASSUME CostmapTypeOK
  PROVE  /\ Grid(static, obstacle) /\ radius \in 0..MaxRadius /\ radius \in Nat
         /\ CellDistance(radius) \in Reaches
         /\ bounds \in Bound /\ last \in Bound
         /\ at \in Places /\ pos \in Places /\ at \in Int /\ CellOf(at) \in Cells
         /\ master \in [Cells -> Costs]
         /\ mapX \in Cells /\ mapWidth \in 1..Size /\ unread \subseteq Cells
         /\ incoming \in {WholeGrid} \cup Updates
<1>1. radius \in 0..MaxRadius /\ at \in Places /\ pos \in Places
  BY WorldAssumption DEF CostmapTypeOK
<1>2. /\ radius \in Nat /\ CellDistance(radius) \in Reaches
      /\ at \in Int /\ CellOf(at) \in Cells
  BY <1>1, ReachOf, CellIn
<1> QED
  BY <1>1, <1>2 DEF CostmapTypeOK, Grid, Bound

\* A step that announces what it changes keeps the master map right.
LEMMA Announced ==
  ASSUME CostmapInv, CostmapTypeOK', master' = master, Pending \subseteq Pending',
         \A c \in Cells \ Pending' : static'[c] = static[c] /\ obstacle'[c] = obstacle[c],
         ~reinflate' => ~reinflate /\ radius' = radius
  PROVE  Shown'
<1>1. \A c \in Cells \ Pending' : Base(c)' = Base(c) /\ c \notin Pending
  BY DEF Base, Layered
<1>2. Obstacles'
  BY <1>1 DEF CostmapInv, Shown, Obstacles
<1>3. Inflated'
  BY <1>1 DEF CostmapInv, Shown, Inflated
<1>4. Justified'
  <2> SUFFICES ASSUME ~reinflate', NEW c \in Cells,
                      \A d \in Pending' : Resolution * Distance(c, d) > radius'
               PROVE  master'[c] = Free \/ Outermost(master[c])' \/ Spread(c, master[c])'
    BY DEF Justified
  <2>1. master[c] = Free \/ Outermost(master[c]) \/ Spread(c, master[c])
    BY DEF CostmapInv, Shown, Justified
  <2>2. Outermost(master[c]) => Outermost(master[c])'
    BY DEF Outermost
  <2>3. ASSUME NEW x \in Cells, Resolution * Distance(c, x) <= radius, Base(x) = Lethal,
               master[c] = CostAt(Distance(c, x))
        PROVE  Spread(c, master[c])'
    <3>1. Resolution * Distance(c, x) \in Nat /\ radius \in Nat
      BY Distances, Typed DEF CostmapInv
    <3>2. x \notin Pending'
      BY <2>3, <3>1
    <3>3. Base(x)' = Lethal
      BY <1>1, <2>3, <3>2
    <3> QED
      BY <2>3, <3>3 DEF Spread
  <2> QED
    BY <2>1, <2>2, <2>3 DEF Spread
<1> QED
  BY <1>2, <1>3, <1>4 DEF Shown

\* Nothing is claimed while every cell is pending.
LEMMA WholeMapAnnounced ==
  ASSUME CostmapTypeOK', Pending' = Cells
  PROVE  Shown'
<1>1. Obstacles' /\ Inflated'
  BY DEF Obstacles, Inflated
<1>2. \A c \in Cells : ~ (Resolution * Distance(c, c) > radius')
  <2> TAKE c \in Cells
  <2>1. radius' \in Nat
    BY Constant DEF CostmapTypeOK
  <2>2. Distance(c, c) = 0 /\ Resolution * 0 = 0
    BY Distances, Constant
  <2> QED
    BY <2>1, <2>2
<1> QED
  BY <1>1, <1>2 DEF Shown, Justified

\* Steps that leave what is announced as it is.
QuietFlags ==
  /\ hasUpdated' = hasUpdated /\ mapReceived' = mapReceived /\ lost' = lost
  /\ extra' = extra /\ (reinflate => reinflate')

QuietData ==
  /\ UNCHANGED <<master, static, obstacle, radius, bounds, last, mapX, mapWidth, incoming, unread>>
  /\ (upd' = upd /\ at' = at) \/ ~ (Locked \/ Locked')
  /\ cb' = cb \/ ~ (Writing \/ Writing')
  /\ exec = "clearing" <=> exec' = "clearing"

\* A step that touches neither the layers nor what is announced.
LEMMA QuietStep ==
  ASSUME CostmapInv, CostmapTypeOK', QuietFlags, QuietData, cb' = "restart" => upd' = "none"
  PROVE  CostmapInv'
<1>1. Pending' = Pending /\ Whole' = Whole
  BY DEF QuietFlags, QuietData, Pending, Collecting, Locked, Whole, In
<1>2. Shown'
  BY <1>1, Announced DEF QuietFlags, QuietData
<1>3. CallsInPlace'
  <2>1. /\ upd' = "inflate" => upd = "inflate" /\ at' = at
        /\ upd' = "costs" => upd = "costs" /\ at' = at
    BY DEF QuietData, Locked, Collecting
  <2>2. cb' = cb \/ cb' \notin {"map", "mapWidth", "received", "updateWidth", "flag"}
    BY DEF QuietData, Writing, Overwriting
  <2> QED
    BY <1>1, <2>1, <2>2 DEF CostmapInv, CallsInPlace, QuietFlags, QuietData, Within, Overwriting
<1>4. UnreadTold'
  <2>1. /\ Collecting' = Collecting /\ Writing' = Writing /\ Overwriting' = Overwriting
        /\ UNCHANGED <<bounds, mapX, mapWidth, incoming, unread>>
    BY DEF QuietData, Locked, Collecting, Writing, Overwriting
  <2>2. hasUpdated' = hasUpdated /\ mapReceived' = mapReceived /\ lost' = lost
    BY DEF QuietFlags
  <2>3. Told' = Told
    BY <2>1, <2>2 DEF Told, In, Area
  <2> QED
    BY <2>1, <2>2, <2>3 DEF CostmapInv, UnreadTold
<1> QED
  BY <1>2, <1>3, <1>4 DEF CostmapInv

-----------------------------------------------------------------------------
(* Steps of the executor, of the world, and of callbacks.                    *)

USE DEF costmapVars, updateVars, lifeVars, staticVars, regionVars, obstacleVars, inflationVars,
        worldVars

\* Who writes the data.
LEMMA Writers ==
  ASSUME [CostmapNext]_costmapVars
  PROVE  /\ UpdateCosts \/ ResetLayers \/ UNCHANGED master
         /\ UpdateCosts \/ ResetLayers \/ ObstacleBounds \/ Clear \/ UNCHANGED obstacle
         /\ IncomingMap \/ IncomingUpdate \/ UNCHANGED static
         /\ Observe \/ UNCHANGED buffer
         /\ StaticLow \/ StaticHigh \/ StaticWidth \/ ExtraBounds \/ ObstacleBounds
            \/ InflationBounds \/ UpdateCosts \/ UNCHANGED <<bounds, last>>
         /\ UpdateTest \/ UNCHANGED at
         /\ RobotMoves \/ UNCHANGED pos
         /\ SetInflation \/ UNCHANGED radius
         /\ IncomingMap \/ IncomingUpdate \/ UNCHANGED incoming
         /\ WriteX \/ UNCHANGED mapX
         /\ WriteWidth \/ UNCHANGED mapWidth
         /\ InflationBounds \/ StartForgets \/ IncomingMap \/ IncomingUpdate \/ ResetLayers
            \/ UNCHANGED unread
         /\ Event \/ UNCHANGED events
<1>1. CASE Update
  BY <1>1 DEF Update, UpdateHead, UpdateTest, StaticBounds, StaticLow, StaticHigh, StaticWidth,
              StaticRead, ExtraBounds, ObstacleBounds, InflationBounds, UpdateCosts, UpdateDone
<1>2. CASE ExecutorGoesOn
  BY <1>2 DEF ExecutorGoesOn, StopLayers, StartForgets, StartResets, StartHasMap, StartReturns,
              ClearBounds
<1>3. CASE CallbackGoesOn \/ Localize
  BY <1>3 DEF CallbackGoesOn, IncomingMap, WriteX, WriteWidth, WriteReceived, WriteUpdated,
              ReconfigureJoins, ReconfigureRestarts, Localize
<1>4. CASE World
  BY <1>4 DEF World, Pause, Stop, Start, Clear, IncomingUpdate, MapServerSends, Observe,
              ResetLayers, SetInflation, ReconfigureStops, RobotMoves, GetLost, NodeStops,
              UpdatesStop
<1> QED
  BY <1>1, <1>2, <1>3, <1>4 DEF CostmapNext

\* The bounds that an observation adds cover its ray.
LEMMA RayIn ==
  ASSUME NEW obs \in Observations, NEW b \in Bound
  PROVE  /\ Touched(b, obs) \in Bound
         /\ \A c \in Cells : In(c, b) \/ c = CellOf(obs.to) \/ c \in Ray(obs)
              => In(c, Touched(b, obs))
<1> DEFINE p == obs.from
           q == obs.to
           x == IF p < q THEN p ELSE q
           y == IF p < q THEN q ELSE p
           a == Bounds(x, y)
<1>1. p \in Places /\ q \in Places
  BY WorldAssumption DEF Observations
<1>2. p \in Int /\ q \in Int /\ CellOf(p) \in Int /\ CellOf(q) \in Int
  BY <1>1, CellIn, Constant
<1>3. /\ Ray(obs) = Min({CellOf(p), CellOf(q)})..Max({CellOf(p), CellOf(q)})
      /\ Touched(b, obs) = Joined(b, Bounds(Min({p, q}), Max({p, q})))
  BY DEF Ray, Touched
<1> HIDE DEF p, q
<1>4. Touched(b, obs) = Joined(b, a)
  BY <1>2, <1>3, OfTwo
<1>5. CellOf(x) \in Int /\ CellOf(y) \in Int /\ x \in Int /\ y \in Int
  BY <1>2
<1>6. p <= q => CellOf(p) <= CellOf(q)
  BY <1>2, CellOfGrows
<1>7. q <= p => CellOf(q) <= CellOf(p)
  BY <1>2, CellOfGrows
<1>8. Ray(obs) = CellOf(x)..CellOf(y)
  <2> DEFINE u == CellOf(p)
             v == CellOf(q)
  <2>1. u \in Int /\ v \in Int /\ Ray(obs) = Min({u, v})..Max({u, v})
    BY <1>2, <1>3
  <2>2. (p < q => CellOf(x) = u /\ CellOf(y) = v /\ u <= v)
        /\ (~(p < q) => CellOf(x) = v /\ CellOf(y) = u /\ v <= u)
    BY <1>2, <1>6, <1>7
  <2> HIDE DEF u, v
  <2>3. Min({u, v}) = IF u < v THEN u ELSE v
    BY <2>1, OfTwo
  <2>4. Max({u, v}) = IF u < v THEN v ELSE u
    BY <2>1, OfTwo
  <2>5. Min({u, v}) = CellOf(x) /\ Max({u, v}) = CellOf(y)
    BY <2>1, <2>2, <2>3, <2>4
  <2> QED
    BY <2>1, <2>5
<1>9. CellOf(x) <= CellOf(q) /\ CellOf(q) <= CellOf(y)
  BY <1>2, <1>6, <1>7
<1>10. a \in Bound /\ a.lo = x /\ a.hi = y
  BY <1>5 DEF Bounds, Bound
<1> HIDE DEF x, y, a
<1>11. \A c \in Cells : c = CellOf(q) \/ c \in Ray(obs) => In(c, a)
  BY <1>2, <1>5, <1>8, <1>9, <1>10 DEF In
<1> QED
  BY <1>4, <1>10, <1>11, Intervals DEF q

LEMMA DataTypes ==
  ASSUME CostmapTypeOK, [CostmapNext]_costmapVars
  PROVE  /\ static' \in [Cells -> {Free, Lethal}]
         /\ obstacle' \in [Cells -> {NoInfo, Free, Lethal}]
         /\ buffer' \in {<<>>} \cup {<<obs>> : obs \in Observations}
         /\ bounds' \in Bound /\ last' \in Bound
         /\ at' \in RobotPlaces /\ pos' \in RobotPlaces
         /\ incoming' \in {WholeGrid} \cup Updates
         /\ mapX' \in Cells /\ mapWidth' \in 1..Size /\ unread' \subseteq Cells
         /\ radius' \in 0..MaxRadius
         /\ events' \in 0..MaxEvents
         /\ master' \in [Cells -> Costs]
<1>1. /\ static \in [Cells -> {Free, Lethal}] /\ obstacle \in [Cells -> {NoInfo, Free, Lethal}]
      /\ master \in [Cells -> Costs]
      /\ buffer \in {<<>>} \cup {<<obs>> : obs \in Observations}
      /\ bounds \in Bound /\ last \in Bound
      /\ at \in RobotPlaces /\ pos \in RobotPlaces
      /\ incoming \in {WholeGrid} \cup Updates
      /\ mapX \in Cells /\ mapWidth \in 1..Size /\ unread \subseteq Cells
      /\ radius \in 0..MaxRadius /\ events \in 0..MaxEvents
  BY DEF CostmapTypeOK, Bound
<1>2. /\ at' \in RobotPlaces /\ pos' \in RobotPlaces /\ radius' \in 0..MaxRadius
      /\ incoming' \in {WholeGrid} \cup Updates
      /\ mapX' \in Cells /\ mapWidth' \in 1..Size /\ unread' \subseteq Cells
  <2>1. /\ at' \in RobotPlaces /\ pos' \in RobotPlaces /\ radius' \in 0..MaxRadius
        /\ incoming' \in {WholeGrid} \cup Updates
    BY <1>1, Writers DEF UpdateTest, RobotMoves, IncomingMap, IncomingUpdate, Busy, SetInflation
  <2>2. incoming.x \in Cells /\ incoming.width \in 1..Size
    <3>1. 0 \in Cells /\ Size \in 1..Size
      BY Constant
    <3> QED
      BY <1>1, <3>1, WorldAssumption DEF WholeGrid
  <2>3. mapX' \in Cells /\ mapWidth' \in 1..Size
    BY <1>1, <2>2, Writers DEF WriteX, WriteWidth
  <2>4. unread' \subseteq Cells
    <3>1. CASE InflationBounds
      BY <1>1, <3>1 DEF InflationBounds
    <3>2. CASE StartForgets \/ IncomingMap \/ ResetLayers
      BY <3>2 DEF StartForgets, IncomingMap, ResetLayers
    <3>3. CASE IncomingUpdate
      BY <1>1, <3>3 DEF IncomingUpdate, Area
    <3> QED
      BY <1>1, <3>1, <3>2, <3>3, Writers
  <2> QED
    BY <2>1, <2>3, <2>4
<1>3. events' \in 0..MaxEvents
  BY <1>1, Writers, WorldAssumption DEF Event
<1>4. buffer' \in {<<>>} \cup {<<obs>> : obs \in Observations}
  BY <1>1, Writers DEF Observe
<1>5. static' \in [Cells -> {Free, Lethal}]
  <2>1. CASE IncomingMap
    BY <2>1, WorldAssumption DEF IncomingMap
  <2>2. CASE IncomingUpdate
    <3>1. \A c \in Cells : Lethal - static[c] \in {Free, Lethal} /\ static[c] \in {Free, Lethal}
      BY <1>1, Constant
    <3> QED
      BY <2>2, <3>1 DEF IncomingUpdate
  <2> QED
    BY <1>1, <2>1, <2>2, Writers
<1>6. obstacle' \in [Cells -> {NoInfo, Free, Lethal}]
  <2>1. CASE UpdateCosts
    BY <1>1, <2>1 DEF UpdateCosts
  <2>2. CASE ResetLayers
    BY <2>2 DEF ResetLayers, NothingThere
  <2>3. CASE Clear
    BY <1>1, <2>3 DEF Clear, Cleared
  <2>4. CASE ObstacleBounds
    BY <1>1, <2>4 DEF ObstacleBounds, Observed
  <2> QED
    BY <1>1, <2>1, <2>2, <2>3, <2>4, Writers
<1>7. bounds' \in Bound /\ last' \in Bound
  <2>1. CASE StaticLow \/ StaticHigh \/ StaticWidth
    <3>1. Centre(mapX) \in Int /\ Resolution * mapWidth \in Int
      <4>1. mapX \in Int /\ mapWidth \in Int /\ Resolution \in Int /\ Half \in Int
        BY <1>1, CostmapAssumption, Constant
      <4> QED
        BY <4>1 DEF Centre
    <3> QED
      BY <1>1, <2>1, <3>1 DEF StaticLow, StaticHigh, StaticWidth, Bound
  <2>2. CASE ExtraBounds
    BY <1>1, <2>2, BoundTypes, Intervals DEF ExtraBounds
  <2>3. CASE ObstacleBounds
    <3>1. at \in Int
      BY <1>1, WorldAssumption, CellIn
    <3>2. Bounds(at, at) \in Bound
      BY <3>1 DEF Bounds, Bound
    <3>3. buffer # <<>> => Touched(bounds, buffer[1]) \in Bound
      BY <1>1, RayIn
    <3> QED
      BY <1>1, <2>3, <3>2, <3>3, Intervals DEF ObstacleBounds
  <2>4. CASE InflationBounds
    <3>1. Joined(last, bounds) \in Bound /\ AllBounds \in Bound /\ radius \in Int
      BY <1>1, BoundTypes, Intervals
    <3>2. Widened(Joined(last, bounds), radius) \in Bound
      BY <3>1 DEF Widened, Bounds, Bound
    <3> QED
      BY <1>1, <2>4, <3>1, <3>2 DEF InflationBounds
  <2>5. CASE UpdateCosts
    BY <1>1, <2>5, BoundTypes DEF UpdateCosts
  <2> QED
    BY <1>1, <2>1, <2>2, <2>3, <2>4, <2>5, Writers
<1>8. master' \in [Cells -> Costs]
  <2>1. CASE UpdateCosts
    <3>1. (IF mapReceived THEN static ELSE NothingThere) \in [Cells -> {Free, Lethal}]
      BY <1>1 DEF NothingThere
    <3>2. Grid(IF mapReceived THEN static ELSE NothingThere, obstacle')
      BY <1>6, <3>1 DEF Grid
    <3>3. Window(bounds) \in SUBSET Cells
      BY <1>1, Intervals
    <3>4. CellDistance(radius) \in Reaches
      BY <1>1, ReachOf
    <3>5. \A w \in SUBSET Cells :
            Updated(master, IF mapReceived THEN static ELSE NothingThere, obstacle',
                    CellDistance(radius), w) \in [Cells -> Costs]
      BY <1>1, <3>2, <3>4, UpdatedValue DEF Renewed
    <3> QED
      BY <2>1, <3>3, <3>5 DEF UpdateCosts
  <2>2. CASE ResetLayers
    BY <2>2, Constant DEF ResetLayers, NothingThere
  <2> QED
    BY <1>1, <2>1, <2>2, Writers
<1> QED
  BY <1>2, <1>3, <1>4, <1>5, <1>6, <1>7, <1>8

CostmapFlags ==
  {ok, localized, stopUpdates, initialized, stopped, hasUpdated, mapReceived, mapOnItsWay,
   extra, reinflate, lost, inFlight, early, updated} \subseteq BOOLEAN

LEMMA CostmapFlagsStep ==
  ASSUME CostmapFlags, [CostmapNext]_costmapVars
  PROVE  CostmapFlags'
<1> USE DEF CostmapFlags
<1>1. Update => CostmapFlags'
  <2>1. UpdateHead => CostmapFlags'
    BY Zenon DEF UpdateHead
  <2>2. UpdateTest => CostmapFlags'
    BY Zenon DEF UpdateTest
  <2>3. StaticBounds => CostmapFlags'
    BY Zenon DEF StaticBounds
  <2>4. StaticRead => CostmapFlags'
    BY Zenon DEF StaticRead, Loses
  <2>5. ExtraBounds => CostmapFlags'
    BY Zenon DEF ExtraBounds
  <2>6. ObstacleBounds => CostmapFlags'
    BY Zenon DEF ObstacleBounds
  <2>7. InflationBounds => CostmapFlags'
    BY Zenon DEF InflationBounds
  <2>8. UpdateCosts => CostmapFlags'
    BY Zenon DEF UpdateCosts
  <2>9. UpdateDone => CostmapFlags'
    BY Zenon DEF UpdateDone
  <2>10. StaticLow => CostmapFlags'
    BY Zenon DEF StaticLow
  <2>11. StaticHigh => CostmapFlags'
    BY Zenon DEF StaticHigh
  <2>12. StaticWidth => CostmapFlags'
    BY Zenon DEF StaticWidth
  <2> QED
    BY <2>1, <2>2, <2>3, <2>4, <2>5, <2>6, <2>7, <2>8, <2>9, <2>10, <2>11, <2>12, Zenon DEF Update
<1>2. ExecutorGoesOn => CostmapFlags'
  <2>1. StopLayers => CostmapFlags'
    BY Zenon DEF StopLayers, NotInitialized, UpdatesGoOn
  <2>2. StartForgets => CostmapFlags'
    BY Zenon DEF StartForgets, NotInitialized, UpdatesGoOn
  <2>3. StartHasMap => CostmapFlags'
    BY Zenon DEF StartHasMap, NotInitialized, UpdatesGoOn
  <2>4. StartReturns => CostmapFlags'
    BY Zenon DEF StartReturns, NotInitialized, UpdatesGoOn
  <2>5. ClearBounds => CostmapFlags'
    BY Zenon DEF ClearBounds, NotInitialized, UpdatesGoOn
  <2>6. StartResets => CostmapFlags'
    BY Zenon DEF StartResets, Loses
  <2> QED
    BY <2>1, <2>2, <2>3, <2>4, <2>5, <2>6, Zenon DEF ExecutorGoesOn
<1>3. CallbackGoesOn => CostmapFlags'
  <2>1. IncomingMap => CostmapFlags'
    BY Zenon DEF IncomingMap
  <2>2. WriteX => CostmapFlags'
    BY Zenon DEF WriteX, Loses
  <2>3. ReconfigureJoins => CostmapFlags'
    BY Zenon DEF ReconfigureJoins
  <2>4. ReconfigureRestarts => CostmapFlags'
    BY Zenon DEF ReconfigureRestarts
  <2>5. WriteWidth => CostmapFlags'
    BY Zenon DEF WriteWidth
  <2>6. WriteReceived => CostmapFlags'
    BY Zenon DEF WriteReceived
  <2>7. WriteUpdated => CostmapFlags'
    BY Zenon DEF WriteUpdated
  <2> QED
    BY <2>1, <2>2, <2>3, <2>4, <2>5, <2>6, <2>7, Zenon DEF CallbackGoesOn
<1>4. World => CostmapFlags'
  <2>1. Pause => CostmapFlags'
    BY Zenon DEF Pause, UpdatesStop, NotInitialized, UpdatesGoOn
  <2>2. Stop => CostmapFlags'
    BY Zenon DEF Stop, UpdatesStop, NotInitialized, UpdatesGoOn
  <2>3. Start => CostmapFlags'
    BY Zenon DEF Start, UpdatesStop, NotInitialized, UpdatesGoOn
  <2>4. Clear => CostmapFlags'
    BY Zenon DEF Clear, UpdatesStop, NotInitialized, UpdatesGoOn
  <2>5. IncomingUpdate => CostmapFlags'
    BY Zenon DEF IncomingUpdate, UpdatesStop, NotInitialized, UpdatesGoOn
  <2>6. MapServerSends => CostmapFlags'
    BY Zenon DEF MapServerSends, UpdatesStop, NotInitialized, UpdatesGoOn
  <2>7. Observe => CostmapFlags'
    BY Zenon DEF Observe, UpdatesStop, NotInitialized, UpdatesGoOn
  <2>8. ResetLayers => CostmapFlags'
    BY Zenon DEF ResetLayers, UpdatesStop, NotInitialized, UpdatesGoOn
  <2>9. SetInflation => CostmapFlags'
    BY Zenon DEF SetInflation, UpdatesStop, NotInitialized, UpdatesGoOn
  <2>10. ReconfigureStops => CostmapFlags'
    BY Zenon DEF ReconfigureStops, UpdatesStop, NotInitialized, UpdatesGoOn
  <2>11. RobotMoves => CostmapFlags'
    BY Zenon DEF RobotMoves, UpdatesStop, NotInitialized, UpdatesGoOn
  <2>12. GetLost => CostmapFlags'
    BY Zenon DEF GetLost, UpdatesStop, NotInitialized, UpdatesGoOn
  <2>13. NodeStops => CostmapFlags'
    BY Zenon DEF NodeStops, UpdatesStop, NotInitialized, UpdatesGoOn
  <2> QED
    BY <2>1, <2>2, <2>3, <2>4, <2>5, <2>6, <2>7, <2>8, <2>9, <2>10, <2>11, <2>12, <2>13, Zenon
       DEF World
<1>5. Localize => CostmapFlags'
  BY Zenon DEF Localize
<1>6. UNCHANGED costmapVars => CostmapFlags'
  BY Zenon
<1> QED
  BY <1>1, <1>2, <1>3, <1>4, <1>5, <1>6, Zenon DEF CostmapNext

ThreadPlaces ==
  /\ upd \in {"none", "head", "test"} \/ Updating
  /\ exec \in {"idle", "stopping", "subscribing", "forgetting", "awaitMap", "starting",
               "clearing"}
  /\ cb \in {"idle", "join", "restart"} \/ Writing

LEMMA CostmapPlacesStep ==
  ASSUME ThreadPlaces, [CostmapNext]_costmapVars
  PROVE  ThreadPlaces'
<1> USE DEF ThreadPlaces, Updating, Locked, Collecting, Writing, Overwriting
<1>1. CASE Update
  BY <1>1 DEF Update, UpdateHead, UpdateTest, StaticBounds, StaticLow, StaticHigh, StaticWidth,
              StaticRead, ExtraBounds, ObstacleBounds, InflationBounds, UpdateCosts, UpdateDone
<1>2. CASE ExecutorGoesOn
  BY <1>2 DEF ExecutorGoesOn, StopLayers, StartForgets, StartResets, StartHasMap, StartReturns,
              ClearBounds
<1>3. CASE CallbackGoesOn \/ Localize
  BY <1>3 DEF CallbackGoesOn, IncomingMap, WriteX, WriteWidth, WriteReceived, WriteUpdated,
              ReconfigureJoins, ReconfigureRestarts, Localize, Busy
<1>4. CASE World
  BY <1>4 DEF World, Pause, Stop, Start, Clear, IncomingUpdate, MapServerSends, Observe,
              ResetLayers, SetInflation, ReconfigureStops, RobotMoves, GetLost, NodeStops, Busy
<1>5. CASE UNCHANGED costmapVars
  BY <1>5
<1> QED
  BY <1>1, <1>2, <1>3, <1>4, <1>5 DEF CostmapNext

LEMMA TypeStep ==
  ASSUME CostmapTypeOK, [CostmapNext]_costmapVars
  PROVE  CostmapTypeOK'
<1>1. CostmapFlags' /\ ThreadPlaces'
  BY CostmapFlagsStep, CostmapPlacesStep DEF CostmapTypeOK, CostmapFlags, ThreadPlaces
<1> QED
  BY <1>1, DataTypes DEF CostmapTypeOK, Bound, CostmapFlags, ThreadPlaces

-----------------------------------------------------------------------------
(* The invariant.                                                            *)

LEMMA QuietSteps ==
  ASSUME CostmapInv, CostmapTypeOK',
         \/ UpdateHead \/ UpdateTest \/ UpdateDone
         \/ StopLayers \/ StartHasMap \/ StartReturns
         \/ ReconfigureJoins \/ ReconfigureRestarts \/ ReconfigureStops
         \/ Pause \/ Stop \/ Start \/ MapServerSends \/ Observe \/ RobotMoves
         \/ GetLost \/ NodeStops \/ Localize \/ UNCHANGED costmapVars
  PROVE  CostmapInv'
<1>1. QuietFlags
  <2> USE DEF QuietFlags
  <2>1. CASE UpdateHead
    BY <2>1, Zenon DEF UpdateHead
  <2>2. CASE UpdateTest
    BY <2>2, Zenon DEF UpdateTest
  <2>3. CASE UpdateDone
    BY <2>3, Zenon DEF UpdateDone
  <2>4. CASE StopLayers
    BY <2>4, Zenon DEF StopLayers
  <2>5. CASE StartHasMap
    BY <2>5, Zenon DEF StartHasMap
  <2>6. CASE StartReturns
    BY <2>6, Zenon DEF StartReturns
  <2>7. CASE ReconfigureJoins
    BY <2>7, Zenon DEF ReconfigureJoins
  <2>8. CASE ReconfigureRestarts
    <3>1. /\ hasUpdated' = hasUpdated /\ mapReceived' = mapReceived
          /\ lost' = lost /\ extra' = extra
      BY <2>8, Zenon DEF ReconfigureRestarts
    <3>2. reinflate' = reinflate \/ reinflate' = TRUE
      BY <2>8, Zenon DEF ReconfigureRestarts
    <3>3. CASE reinflate' = reinflate
      BY <3>1, <3>3, Zenon
    <3>4. CASE reinflate' = TRUE
      BY <3>1, <3>4, Zenon
    <3> QED
      BY <3>2, <3>3, <3>4, Zenon
  <2>9. CASE ReconfigureStops
    BY <2>9, Zenon DEF ReconfigureStops
  <2>10. CASE Pause
    BY <2>10, Zenon DEF Pause
  <2>11. CASE Stop
    BY <2>11, Zenon DEF Stop
  <2>12. CASE Start
    BY <2>12, Zenon DEF Start
  <2>13. CASE MapServerSends
    BY <2>13, Zenon DEF MapServerSends
  <2>14. CASE Observe
    BY <2>14, Zenon DEF Observe
  <2>15. CASE RobotMoves
    BY <2>15, Zenon DEF RobotMoves
  <2>16. CASE GetLost
    BY <2>16, Zenon DEF GetLost
  <2>17. CASE NodeStops
    BY <2>17, Zenon DEF NodeStops
  <2>18. CASE Localize
    BY <2>18, Zenon DEF Localize
  <2>19. CASE UNCHANGED costmapVars
    BY <2>19, Zenon
  <2> QED
    BY <2>1, <2>2, <2>3, <2>4, <2>5, <2>6, <2>7, <2>8, <2>9, <2>10, <2>11, <2>12, <2>13, <2>14,
       <2>15, <2>16, <2>17, <2>18, <2>19
<1>2. QuietData /\ (cb' = "restart" => upd' = "none")
  <2> USE DEF QuietData, Locked, Collecting, Writing, Overwriting
  <2>1. cb = "restart" => upd = "none"
    BY DEF CostmapInv, CallsInPlace
  <2>2. CASE UpdateHead \/ UpdateTest \/ UpdateDone
    BY <2>1, <2>2 DEF UpdateHead, UpdateTest, UpdateDone
  <2>3. CASE StopLayers \/ StartHasMap \/ StartReturns
    BY <2>1, <2>3 DEF StopLayers, StartHasMap, StartReturns
  <2>4. CASE ReconfigureJoins \/ ReconfigureRestarts \/ ReconfigureStops
    BY <2>1, <2>4 DEF ReconfigureJoins, ReconfigureRestarts, ReconfigureStops, NoThread
  <2>5. CASE Pause \/ Stop \/ Start
    BY <2>1, <2>5 DEF Pause, Stop, Start, UpdatesStop
  <2>6. CASE MapServerSends \/ Observe \/ RobotMoves
    BY <2>1, <2>6 DEF MapServerSends, Observe, RobotMoves
  <2>7. CASE GetLost \/ NodeStops \/ Localize
    BY <2>1, <2>7 DEF GetLost, NodeStops, Localize
  <2>8. CASE UNCHANGED costmapVars
    BY <2>1, <2>8
  <2> QED
    BY <2>2, <2>3, <2>4, <2>5, <2>6, <2>7, <2>8
<1> QED
  BY <1>1, <1>2, QuietStep

\* Steps of the static layer that only add to what the update has collected.
LEMMA BoundsSteps ==
  ASSUME CostmapInv, CostmapTypeOK', StaticBounds \/ StaticLow \/ StaticHigh \/ StaticWidth
  PROVE  CostmapInv'
<1>1. /\ upd \in {"static", "low", "high", "width"}
      /\ upd' \in {"low", "high", "width", "flag", "extra"}
      /\ UNCHANGED <<at, master, exec, cb, incoming, static, obstacle, radius, last, unread>>
      /\ UNCHANGED <<mapX, mapWidth>>
  BY DEF StaticBounds, StaticLow, StaticHigh, StaticWidth
<1>2. /\ hasUpdated' = hasUpdated /\ mapReceived' = mapReceived /\ lost' = lost
      /\ extra' = extra /\ reinflate' = reinflate
  <2>1. CASE StaticBounds
    BY <2>1, Zenon DEF StaticBounds
  <2>2. CASE StaticLow
    BY <2>2, Zenon DEF StaticLow
  <2>3. CASE StaticHigh
    BY <2>3, Zenon DEF StaticHigh
  <2>4. CASE StaticWidth
    BY <2>4, Zenon DEF StaticWidth
  <2> QED
    BY <2>1, <2>2, <2>3, <2>4, Zenon
<1>3. ~Collecting /\ ~Whole /\ Writing' = Writing /\ Overwriting' = Overwriting
  BY <1>1 DEF Collecting, Whole, Writing, Overwriting
<1>4. Pending \subseteq Pending'
  BY <1>1, <1>2, <1>3 DEF Pending
<1>5. Told \subseteq Told'
  BY <1>1, <1>2, <1>3 DEF Told, Area
<1>6. Shown'
  BY <1>1, <1>2, <1>4, Announced
<1>7. UnreadTold'
  BY <1>1, <1>2, <1>5 DEF CostmapInv, UnreadTold
<1>8. CallsInPlace'
  BY <1>1, <1>3 DEF CostmapInv, CallsInPlace
<1> QED
  BY <1>6, <1>7, <1>8 DEF CostmapInv

\* What is new is forgotten together with the flag, or with x_.
LEMMA NotLost ==
  ASSUME CostmapInv, NEW next \in SUBSET Cells, mapReceived, ~lost, ~Loses(next)
  PROVE  \A c \in unread :
           \/ Collecting /\ In(c, bounds)
           \/ Writing /\ c \in Area(incoming.x, incoming.width)
           \/ ~Overwriting /\ c \in next
<1> SUFFICES ASSUME NEW c \in unread, ~(Collecting /\ In(c, bounds)),
                    ~(Writing /\ c \in Area(incoming.x, incoming.width))
             PROVE  ~Overwriting /\ c \in next
  OBVIOUS
<1>1. c \in Cells /\ ~Overwriting /\ hasUpdated /\ c \in Area(mapX, mapWidth)
  BY DEF CostmapInv, UnreadTold, Told
<1>2. c \in Collected \cup next
  BY <1>1 DEF Loses
<1>3. c \notin Collected
  BY <1>1, Intervals, Typed DEF Collected, CostmapInv
<1> QED
  BY <1>1, <1>2, <1>3

\* The flag is reset.
LEMMA ResetFlagSteps ==
  ASSUME CostmapInv, CostmapTypeOK', StaticRead \/ StartResets
  PROVE  CostmapInv'
<1>1. /\ UNCHANGED <<bounds, at, master, cb, incoming, static, mapX, mapWidth, unread, obstacle>>
      /\ UNCHANGED <<radius, last>>
      /\ \/ upd = "flag" /\ upd' = "extra" /\ exec' = exec
         \/ upd' = upd /\ exec = "forgetting" /\ exec' = "awaitMap"
  BY DEF StaticRead, StartResets
<1>2. /\ mapReceived' = mapReceived /\ extra' = extra /\ reinflate' = reinflate
      /\ hasUpdated' = FALSE /\ lost' = (lost \/ Loses({}))
  <2>1. CASE StaticRead
    BY <2>1, Zenon DEF StaticRead
  <2>2. CASE StartResets
    BY <2>2, Zenon DEF StartResets
  <2> QED
    BY <2>1, <2>2, Zenon
<1>3. /\ Collecting' = Collecting /\ Whole' = Whole
      /\ Writing' = Writing /\ Overwriting' = Overwriting
  BY <1>1 DEF Collecting, Whole, Writing, Overwriting
<1>4. Pending' = Pending
  BY <1>1, <1>2, <1>3 DEF Pending, In
<1>5. Shown'
  BY <1>1, <1>2, <1>4, Announced
<1>6. UnreadTold'
  <2>1. ~mapReceived' => unread' = Cells
    BY <1>1, <1>2 DEF CostmapInv, UnreadTold
  <2>2. ASSUME mapReceived', ~lost', NEW c \in unread'
        PROVE  c \in Told'
    <3>1. mapReceived /\ ~lost /\ ~Loses({})
      BY <1>2, <2>2, Zenon
    <3>2. c \in Cells /\ c \in unread
      BY <1>1, <2>2 DEF CostmapInv, CostmapTypeOK
    <3>3. (Collecting /\ In(c, bounds)) \/ (Writing /\ c \in Area(incoming.x, incoming.width))
      BY <3>1, <3>2, NotLost
    <3> QED
      BY <1>1, <1>3, <3>2, <3>3 DEF Told, In, Area
  <2> QED
    BY <2>1, <2>2 DEF UnreadTold
<1>7. CallsInPlace'
  BY <1>1, <1>2, <1>3 DEF CostmapInv, CallsInPlace, Within
<1> QED
  BY <1>5, <1>6, <1>7 DEF CostmapInv

\* The obstacle layer marks and clears along a ray, within the bounds it joins.
LEMMA ObstacleStep ==
  ASSUME CostmapInv, CostmapTypeOK', ExtraBounds \/ ObstacleBounds
  PROVE  CostmapInv'
<1>1. bounds \in Bound /\ at \in Int /\ WholeMap \in Bound
  BY Typed, BoundTypes DEF CostmapInv
<1>2. /\ upd \in {"extra", "obstacle"} /\ upd' \in {"obstacle", "inflate"}
      /\ UNCHANGED <<at, master, exec, cb, incoming, static, mapX, mapWidth, unread, radius, last>>
  BY DEF ExtraBounds, ObstacleBounds
<1>3. /\ hasUpdated' = hasUpdated /\ mapReceived' = mapReceived /\ lost' = lost
      /\ reinflate' = reinflate
  <2>1. CASE ExtraBounds
    BY <2>1, Zenon DEF ExtraBounds
  <2>2. CASE ObstacleBounds
    BY <2>2, Zenon DEF ObstacleBounds
  <2> QED
    BY <2>1, <2>2, Zenon
<1>4. /\ Collecting /\ Collecting' /\ ~Whole
      /\ Writing' = Writing /\ Overwriting' = Overwriting
  BY <1>2 DEF Collecting, Whole, Writing, Overwriting
<1>5. /\ \A c \in Cells : In(c, bounds) => In(c, bounds')
      /\ Pending \subseteq Pending'
      /\ \A c \in Cells \ Pending' : obstacle'[c] = obstacle[c]
      /\ upd' = "inflate" => Within(at, bounds')
  <2>1. CASE ExtraBounds
    <3>1. \A c \in Cells : In(c, bounds) \/ extra => In(c, bounds')
      BY <1>1, <2>1, BoundTypes, Intervals DEF ExtraBounds
    <3>2. Pending \subseteq Pending'
      BY <1>2, <1>4, <3>1 DEF Pending
    <3> QED
      BY <2>1, <3>1, <3>2 DEF ExtraBounds
  <2>2. CASE ObstacleBounds
    <3> DEFINE b == IF buffer = <<>> THEN bounds ELSE Touched(bounds, buffer[1])
    <3>1. buffer # <<>> => buffer[1] \in Observations
      BY DEF CostmapInv, CostmapTypeOK
    <3>2. b \in Bound /\ \A c \in Cells : In(c, bounds) => In(c, b)
      BY <1>1, <3>1, RayIn
    <3>3. \A c \in Cells : ~In(c, b) => obstacle'[c] = obstacle[c]
      <4>1. CASE buffer = <<>>
        BY <2>2, <4>1 DEF ObstacleBounds
      <4>2. CASE buffer # <<>>
        <5>1. \A c \in Cells : c = CellOf(buffer[1].to) \/ c \in Ray(buffer[1]) => In(c, b)
          BY <1>1, <3>1, <4>2, RayIn
        <5> QED
          BY <2>2, <4>2, <5>1 DEF ObstacleBounds, Observed
      <4> QED
        BY <4>1, <4>2
    <3>4. Bounds(at, at) \in Bound /\ Within(at, Bounds(at, at))
      BY <1>1 DEF Bounds, Bound, Within
    <3>5. bounds' = Joined(b, Bounds(at, at))
      BY <2>2 DEF ObstacleBounds
    <3> HIDE DEF b
    <3>6. Within(at, bounds') /\ \A c \in Cells : In(c, b) => In(c, bounds')
      BY <1>1, <3>2, <3>4, <3>5, Intervals
    <3>7. extra' = extra
      BY <2>2, Zenon DEF ObstacleBounds
    <3>8. \A c \in Cells : In(c, bounds) => In(c, bounds')
      BY <3>2, <3>6
    <3>9. Pending \subseteq Pending'
      BY <1>2, <1>4, <3>7, <3>8 DEF Pending
    <3>10. \A c \in Cells \ Pending' : obstacle'[c] = obstacle[c]
      BY <1>4, <3>3, <3>6 DEF Pending
    <3> QED
      BY <3>6, <3>8, <3>9, <3>10
  <2> QED
    BY <2>1, <2>2
<1>6. Shown'
  BY <1>2, <1>3, <1>5, Announced
<1>7. UnreadTold'
  <2>1. Told \subseteq Told'
    BY <1>2, <1>3, <1>4, <1>5 DEF Told, Area
  <2> QED
    BY <1>2, <1>3, <2>1 DEF CostmapInv, UnreadTold
<1>8. CallsInPlace'
  BY <1>2, <1>3, <1>4, <1>5 DEF CostmapInv, CallsInPlace, Within
<1> QED
  BY <1>6, <1>7, <1>8 DEF CostmapInv

\* The bounds grow by the radius, or become the whole map.
LEMMA InflationStep ==
  ASSUME CostmapInv, CostmapTypeOK', InflationBounds
  PROVE  CostmapInv'
<1>1. /\ bounds \in Bound /\ last \in Bound /\ radius \in Nat
      /\ upd = "inflate" /\ upd' = "costs" /\ last' = bounds
      /\ UNCHANGED <<at, master, exec, cb, incoming, static, obstacle, mapX, mapWidth, radius>>
      /\ Within(at, bounds)
  BY Typed DEF CostmapInv, CallsInPlace, InflationBounds
<1>2. /\ hasUpdated' = hasUpdated /\ mapReceived' = mapReceived /\ lost' = lost
      /\ extra' = extra
  BY Zenon DEF InflationBounds
<1>3. /\ Collecting /\ ~Collecting' /\ ~Whole
      /\ Writing' = Writing /\ Overwriting' = Overwriting
  BY <1>1 DEF Collecting, Whole, Writing, Overwriting
<1>4. reinflate => Whole'
  BY <1>1, BoundTypes DEF InflationBounds, Whole
<1>5. ~reinflate => bounds'.lo <= last'.lo - radius' /\ last'.hi + radius' <= bounds'.hi
  <2> HAVE ~reinflate
  <2> DEFINE wide == Joined(last, bounds)
  <2>1. bounds' = Bounds(wide.lo - radius, wide.hi + radius)
    BY DEF InflationBounds, Widened
  <2>2. last.lo \in Int /\ last.hi \in Int /\ bounds.lo \in Int /\ bounds.hi \in Int
    BY <1>1 DEF Bound
  <2>3. /\ wide.lo = IF last.lo < bounds.lo THEN last.lo ELSE bounds.lo
        /\ wide.hi = IF last.hi < bounds.hi THEN bounds.hi ELSE last.hi
    BY <2>2, OfTwo DEF Joined, Bounds
  <2> HIDE DEF wide
  <2> QED
    BY <1>1, <2>1, <2>2, <2>3 DEF Bounds
<1>6. /\ unread' \subseteq unread
      /\ \A c \in unread : c \in unread' \/ In(c, bounds) \/ reinflate
      /\ mapReceived => \A c \in unread' : ~In(c, bounds)
      /\ ~mapReceived => unread' = unread
  <2>1. \A c \in unread : c \in Cells
    BY Typed DEF CostmapInv
  <2> QED
    BY <1>1, <2>1, Intervals DEF InflationBounds
<1>7. Pending \subseteq Pending'
  BY <1>1, <1>2, <1>3, <1>4, <1>6 DEF Pending, In
<1>8. ~reinflate \/ Whole'
  BY <1>4
<1>9. Shown'
  <2>1. CASE Whole'
    <3>1. Pending' = Cells
      BY <2>1 DEF Pending
    <3> QED
      BY <3>1, WholeMapAnnounced
  <2>2. CASE ~reinflate
    BY <1>1, <1>7, <2>2, Announced
  <2> QED
    BY <1>8, <2>1, <2>2
<1>10. UnreadTold'
  <2>1. ~mapReceived' => unread' = Cells
    BY <1>2, <1>6 DEF CostmapInv, UnreadTold
  <2>2. ASSUME mapReceived', ~lost', NEW c \in unread'
        PROVE  c \in Told'
    <3>1. c \in Told /\ ~In(c, bounds)
      BY <1>2, <1>6, <2>2 DEF CostmapInv, UnreadTold
    <3> QED
      BY <1>1, <1>2, <1>3, <3>1 DEF Told, Area
  <2> QED
    BY <2>1, <2>2 DEF UnreadTold
<1>11. CallsInPlace'
  BY <1>1, <1>3, <1>4, <1>5 DEF CostmapInv, CallsInPlace, Within, InflationBounds
<1> QED
  BY <1>9, <1>10, <1>11 DEF CostmapInv

\* A cell beyond bounds that were widened is farther away than the radius.
LEMMA FarFromLast ==
  ASSUME NEW a \in Bound, NEW b \in Bound, NEW r \in Nat,
         b.lo <= a.lo - r, a.hi + r <= b.hi, NEW d \in Cells, In(d, a)
  PROVE  In(d, b) /\ \A c \in Cells : ~In(c, b) => Resolution * Distance(c, d) > r
<1>1. /\ a.lo \in Int /\ a.hi \in Int /\ b.lo \in Int /\ b.hi \in Int
      /\ a.lo - r \in Int /\ a.hi + r \in Int
  BY DEF Bound
<1>2. /\ CellOf(a.lo) \in Int /\ CellOf(a.hi) \in Int /\ CellOf(b.lo) \in Int
      /\ CellOf(b.hi) \in Int /\ CellOf(a.lo - r) \in Int /\ CellOf(a.hi + r) \in Int
  BY <1>1, CellOfValue
<1>3. CellOf(b.lo) <= CellOf(a.lo - r) /\ CellOf(a.hi + r) <= CellOf(b.hi)
  BY <1>1, CellOfGrows
<1>4. d \in Int /\ CellOf(a.lo) <= d /\ d <= CellOf(a.hi)
  BY Constant DEF In
<1>5. ASSUME NEW c \in Cells, NEW n \in Nat, n = Distance(c, d), Resolution * n <= r
      PROVE  In(c, b)
  <2>1. CellOf(a.lo - r) <= CellOf(a.lo) - n /\ CellOf(a.hi) + n <= CellOf(a.hi + r)
    BY <1>1, <1>5, Reach
  <2>2. c \in Int /\ d - n <= c /\ c <= d + n
    BY <1>4, <1>5, Constant DEF Distance
  <2> QED
    BY <1>2, <1>3, <1>4, <2>1, <2>2 DEF In
<1>6. Distance(d, d) = 0 /\ Resolution * 0 = 0
  BY Distances, Constant
<1>7. In(d, b)
  BY <1>5, <1>6
<1>8. ASSUME NEW c \in Cells, ~In(c, b)
      PROVE  Resolution * Distance(c, d) > r
  <2>1. Distance(c, d) \in Nat /\ Resolution * Distance(c, d) \in Nat
    BY Distances
  <2> QED
    BY <1>5, <1>8, <2>1
<1> QED
  BY <1>7, <1>8

\* The window is computed anew; what it leaves out was right, and stays so.
LEMMA CostsStep ==
  ASSUME CostmapInv, CostmapTypeOK', UpdateCosts
  PROVE  CostmapInv'
<1> DEFINE w == Window(bounds)
           r == CellDistance(radius)
           begun == Begun(master, static, obstacle', w)
           sources == Sources(master, static, obstacle', r, w)
<1>1. /\ bounds \in Bound /\ last \in Bound /\ radius \in Nat /\ r \in Reaches
      /\ at \in Int /\ CellOf(at) \in Cells /\ Within(at, last)
      /\ Grid(static, obstacle) /\ master \in [Cells -> Costs]
      /\ upd = "costs" /\ upd' = "done"
      /\ ~reinflate => Whole \/ (bounds.lo <= last.lo - radius /\ last.hi + radius <= bounds.hi)
  BY Typed DEF CostmapInv, CallsInPlace, UpdateCosts
<1>2. UNCHANGED <<static, radius, mapX, mapWidth, unread, cb, incoming, exec>>
  BY DEF UpdateCosts
<1>3. /\ reinflate' = reinflate /\ mapReceived' = mapReceived /\ lost' = lost
      /\ extra' = extra /\ hasUpdated' = hasUpdated
  BY Zenon DEF UpdateCosts
<1>4. /\ ~Collecting /\ ~Collecting' /\ ~Whole'
      /\ Writing' = Writing /\ Overwriting' = Overwriting
  BY <1>1, <1>2 DEF Collecting, Whole, Writing, Overwriting
<1>5. CallsInPlace' /\ UnreadTold'
  <2>1. CallsInPlace'
    BY <1>1, <1>2, <1>4 DEF CostmapInv, CallsInPlace
  <2>2. Told' = Told
    BY <1>2, <1>3, <1>4 DEF Told, Area
  <2> QED
    BY <1>2, <1>3, <2>1, <2>2 DEF CostmapInv, UnreadTold
<1>6. CASE ~mapReceived
  <2>1. unread' = Cells
    BY <1>2, <1>6 DEF CostmapInv, UnreadTold
  <2>2. Pending' = Cells
    BY <2>1 DEF Pending
  <2> QED
    BY <1>5, <2>2, WholeMapAnnounced DEF CostmapInv
<1>7. CASE reinflate
  BY <1>3, <1>5, <1>7 DEF CostmapInv, Shown, Obstacles, Inflated, Justified
<1>8. CASE mapReceived /\ ~reinflate
  <2>1. w \in SUBSET Cells /\ \A c \in Cells : c \in w <=> In(c, bounds)
    BY <1>1, Intervals
  <2>2. master' = Updated(master, static, obstacle', r, w)
    BY <1>8 DEF UpdateCosts
  <2>3. obstacle' = [obstacle EXCEPT ![CellOf(at)] = Free] /\ Grid(static, obstacle')
    BY <1>1, <1>2 DEF UpdateCosts, Grid, CostmapTypeOK
  <2>4. \A c \in Cells : /\ c # CellOf(at) => Base(c)' = Base(c)
                         /\ Base(c)' = Layered(static, obstacle', c)
                         /\ Base(c)' \in {Free, Lethal}
    BY <1>1, <1>2, <2>3, LayeredValue DEF Base, Layered, Grid
  <2>5. Pending' \subseteq Pending
    BY <1>1, <1>2, <1>3, <1>4 DEF Pending
  <2>6. ASSUME NEW c \in Cells \ w
        PROVE  /\ \A d \in Cells : In(d, last) => d \in w /\ Resolution * Distance(c, d) > radius
               /\ c # CellOf(at)
               /\ \A d \in Pending : d \in Pending' \/ In(d, last)
    <3>1. ~Whole
      BY <2>6 DEF Whole
    <3>2. \A d \in Cells : In(d, last) => d \in w /\ Resolution * Distance(c, d) > radius
      BY <1>1, <1>8, <2>1, <2>6, <3>1, FarFromLast
    <3>3. In(CellOf(at), last)
      BY <1>1, CellIn
    <3>4. c # CellOf(at)
      BY <1>1, <2>6, <3>2, <3>3
    <3>5. \A d \in Pending : d \in Pending' \/ In(d, last)
      BY <1>2, <1>3, <1>4, <3>1 DEF Pending
    <3> QED
      BY <3>2, <3>4, <3>5
  <2> HIDE DEF w, r
  <2>7. /\ master' \in [Cells -> Costs]
        /\ \A c \in Cells : begun[c] <= master'[c]
        /\ \A c \in Cells, x \in sources :
             Distance(c, x) <= r => CostAt(Distance(c, x)) <= master'[c]
        /\ \A c \in Cells :
             \/ master'[c] = begun[c] \/ master'[c] = Free
             \/ \E x \in sources : Distance(c, x) <= r /\ master'[c] = CostAt(Distance(c, x))
    <3>1. /\ master \in [Cells -> Costs] /\ Grid(static, obstacle') /\ r \in Reaches
          /\ w \in SUBSET Cells
      BY <1>1, <2>1, <2>3
    <3>2. Renewed(Updated(master, static, obstacle', r, w), master, static, obstacle', r, w)
      BY <3>1, UpdatedValue
    <3>3. Renewed(master', master, static, obstacle', r, w)
      BY <2>2, <3>2
    <3> QED
      BY <3>3, Zenon DEF Renewed
  <2>8. \A c \in Cells : begun[c] = IF c \in w THEN Base(c)' ELSE master[c]
    BY <2>4 DEF Begun
  <2>9. \A x \in Cells : x \in sources <=> begun[x] = Lethal /\ \E v \in w : Distance(x, v) <= r
    BY DEF Sources
  <2>10. sources \subseteq Cells
    BY DEF Sources
  <2> HIDE DEF begun, sources
  <2>11. ASSUME NEW c \in Cells \ Pending'
         PROVE  begun[c] = Lethal <=> Base(c)' = Lethal
    <3>1. CASE c \in w
      BY <2>8, <3>1
    <3>2. CASE c \notin w
      <4>1. c \notin Pending /\ c # CellOf(at)
        BY <2>6, <3>2
      <4>2. master[c] = Lethal <=> Base(c) = Lethal
        BY <1>8, <4>1 DEF CostmapInv, Shown, Obstacles
      <4> QED
        BY <2>4, <2>8, <3>2, <4>1, <4>2
    <3> QED
      BY <3>1, <3>2
  <2>12. Obstacles'
    <3> SUFFICES ASSUME NEW c \in Cells \ Pending'
                 PROVE  master'[c] = Lethal <=> Base(c)' = Lethal
      BY DEF Obstacles
    <3>1. begun[c] = Lethal => master'[c] = Lethal
      BY <2>7, Constant
    <3>2. ASSUME master'[c] = Lethal
          PROVE  begun[c] = Lethal
      <4>1. Free # Lethal
        BY Constant
      <4>2. ASSUME NEW x \in sources, Distance(c, x) <= r, master'[c] = CostAt(Distance(c, x))
            PROVE  begun[c] = Lethal
        <5>1. Distance(c, x) \in Nat /\ (Distance(c, x) = 0 <=> c = x)
          BY <2>10, Distances
        <5>2. c = x
          BY <1>1, <3>2, <4>2, <5>1, CostValue
        <5> QED
          BY <2>9, <4>2, <5>2
      <4> QED
        BY <2>7, <3>2, <4>1, <4>2
    <3> QED
      BY <2>11, <3>1, <3>2
  <2>13. Inflated'
    <3> SUFFICES ASSUME NEW x \in Cells \ Pending', NEW c \in Cells,
                        Base(x)' = Lethal, Distance(c, x) <= CellDistance(radius')
                 PROVE  CostAt(Distance(c, x)) <= master'[c]
      BY DEF Inflated
    <3>1. begun[x] = Lethal /\ Distance(c, x) <= r /\ Distance(x, c) = Distance(c, x)
      BY <1>2, <2>11, Distances DEF r
    <3>2. CASE x \in sources
      BY <2>7, <3>1, <3>2
    <3>3. CASE x \notin sources
      <4>1. Distance(x, x) = 0 /\ 0 <= r
        BY <1>1, Distances, Constant DEF Reaches
      <4>2. c \notin w /\ x \notin w
        BY <2>9, <3>1, <3>3, <4>1
      <4>3. x \notin Pending /\ Base(x) = Lethal
        BY <2>4, <2>6, <4>2
      <4>4. CostAt(Distance(c, x)) <= begun[c]
        BY <1>8, <2>8, <3>1, <4>2, <4>3 DEF CostmapInv, Shown, Inflated, r
      <4>5. begun[c] <= master'[c] /\ begun[c] = master[c]
        BY <2>7, <2>8, <4>2
      <4>6. begun[c] \in Int /\ master'[c] \in Int /\ CostAt(Distance(c, x)) \in Int
        <5>1. master[c] \in Costs /\ master'[c] \in Costs
          BY <1>1, <2>7
        <5>2. CostAt(Distance(c, x)) \in 0..Lethal
          BY <1>1, <3>1, Distances, CostValue
        <5> QED
          BY <4>5, <5>1, <5>2, Constant
      <4> QED
        BY <4>4, <4>5, <4>6
    <3> QED
      BY <3>2, <3>3
  <2>14. Justified'
    <3> SUFFICES ASSUME NEW c \in Cells, \A d \in Pending' : Resolution * Distance(c, d) > radius
                 PROVE  master'[c] = Free \/ Outermost(master[c])' \/ Spread(c, master[c])'
      BY <1>2 DEF Justified
    <3>1. \A x \in Cells : /\ Distance(c, x) \in Nat /\ Resolution * Distance(c, x) \in Nat
                           /\ Resolution * Distance(c, x) <= radius => x \notin Pending'
      BY <1>1, Distances
    <3>2. ASSUME NEW x \in sources, Distance(c, x) <= r, master'[c] = CostAt(Distance(c, x))
          PROVE  Outermost(master[c])' \/ Spread(c, master[c])'
      <4>1. CASE Resolution * Distance(c, x) > radius
        <5>1. Distance(c, x) = r /\ radius % Resolution # 0
          BY <1>1, <2>10, <3>1, <3>2, <4>1, Rounded DEF r
        <5> QED
          BY <1>2, <3>2, <5>1 DEF Outermost, r
      <4>2. CASE ~ (Resolution * Distance(c, x) > radius)
        <5>1. x \in Cells /\ Resolution * Distance(c, x) <= radius /\ x \notin Pending'
          BY <1>1, <2>10, <3>1, <4>2
        <5>2. Base(x)' = Lethal
          BY <2>9, <2>11, <5>1
        <5> QED
          BY <1>2, <3>2, <5>1, <5>2 DEF Spread
      <4> QED
        BY <4>1, <4>2
    <3>3. ASSUME master'[c] = begun[c], c \in w
          PROVE  master'[c] = Free \/ Spread(c, master[c])'
      <4>1. master'[c] = Free \/ (master'[c] = Lethal /\ Base(c)' = Lethal)
        BY <2>4, <2>8, <3>3
      <4>2. Distance(c, c) = 0 /\ Resolution * Distance(c, c) <= radius /\ CostAt(0) = Lethal
        <5>1. Resolution * 0 = 0 /\ CostAt(0) = Lethal
          BY Constant DEF CostAt
        <5>2. Distance(c, c) = 0
          BY Distances
        <5> QED
          BY <1>1, <5>1, <5>2
      <4> QED
        BY <1>2, <4>1, <4>2 DEF Spread
    <3>4. ASSUME master'[c] = begun[c], c \notin w
          PROVE  master'[c] = Free \/ Outermost(master[c])' \/ Spread(c, master[c])'
      <4>1. master'[c] = master[c]
        BY <2>8, <3>4
      <4>2. \A d \in Pending : Resolution * Distance(c, d) > radius
        <5>1. \A d \in Pending : d \in Cells
          BY DEF Pending
        <5> QED
          BY <2>6, <3>4, <5>1
      <4>3. master[c] = Free \/ Outermost(master[c]) \/ Spread(c, master[c])
        BY <1>8, <4>2 DEF CostmapInv, Shown, Justified
      <4>4. Outermost(master[c]) => Outermost(master[c])'
        BY <1>2, <4>1 DEF Outermost
      <4>5. ASSUME NEW x \in Cells, Resolution * Distance(c, x) <= radius, Base(x) = Lethal,
                   master[c] = CostAt(Distance(c, x))
            PROVE  Spread(c, master[c])'
        <5>1. ~In(x, last)
          BY <1>1, <2>6, <3>1, <3>4, <4>5
        <5>2. x # CellOf(at)
          BY <1>1, <5>1, CellIn
        <5> QED
          BY <1>2, <2>4, <4>1, <4>5, <5>2 DEF Spread
      <4> QED
        BY <4>1, <4>3, <4>4, <4>5 DEF Spread
    <3> QED
      BY <2>7, <3>2, <3>3, <3>4
  <2> QED
    BY <1>5, <2>12, <2>13, <2>14 DEF CostmapInv, Shown
<1> QED
  BY <1>6, <1>7, <1>8

\* Steps after which every cell is pending.
LEMMA WholeMapSteps ==
  ASSUME CostmapInv, CostmapTypeOK',
         Clear \/ ClearBounds \/ IncomingMap \/ ResetLayers \/ StartForgets
  PROVE  CostmapInv'
<1>1. Shown'
  <2>1. CASE Clear
    <3>1. Pending' = Cells
      BY <2>1 DEF Clear, Pending
    <3> QED
      BY <3>1, WholeMapAnnounced
  <2>2. CASE ClearBounds
    <3>1. extra'
      BY <2>2, Zenon DEF ClearBounds
    <3>2. Pending' = Cells
      BY <3>1, Zenon DEF Pending
    <3> QED
      BY <3>2, WholeMapAnnounced
  <2>3. CASE IncomingMap \/ ResetLayers \/ StartForgets
    <3>1. unread' = Cells
      BY <2>3 DEF IncomingMap, ResetLayers, StartForgets
    <3>2. Pending' = Cells
      BY <3>1 DEF Pending
    <3> QED
      BY <3>2, WholeMapAnnounced
  <2> QED
    BY <2>1, <2>2, <2>3
<1>2. UNCHANGED <<upd, bounds, at, last, mapX, mapWidth, radius>>
  BY DEF Clear, ClearBounds, IncomingMap, ResetLayers, StartForgets
<1>3. Whole' = Whole /\ Collecting' = Collecting
  BY <1>2 DEF Whole, Collecting
<1>4. CASE Clear \/ ClearBounds
  <2>1. cb' = cb /\ incoming' = incoming /\ unread' = unread
    BY <1>4 DEF Clear, ClearBounds
  <2>2. /\ hasUpdated' = hasUpdated /\ mapReceived' = mapReceived /\ lost' = lost
        /\ reinflate' = reinflate
    <3>1. CASE Clear
      BY <3>1, Zenon DEF Clear
    <3>2. CASE ClearBounds
      BY <3>2, Zenon DEF ClearBounds
    <3> QED
      BY <1>4, <3>1, <3>2, Zenon
  <2>3. Writing' = Writing /\ Overwriting' = Overwriting
    BY <2>1 DEF Writing, Overwriting
  <2>4. Told' = Told
    BY <1>2, <1>3, <2>1, <2>2, <2>3 DEF Told, In, Area
  <2>5. UnreadTold'
    BY <2>1, <2>2, <2>4 DEF CostmapInv, UnreadTold
  <2>6. CallsInPlace'
    BY <1>2, <1>3, <2>1, <2>2, <2>3 DEF CostmapInv, CallsInPlace, Within
  <2> QED
    BY <1>1, <2>5, <2>6 DEF CostmapInv
<1>5. CASE IncomingMap
  <2>1. cb = "idle" /\ cb' = "map" /\ incoming' = WholeGrid /\ unread' = Cells
    BY <1>5 DEF IncomingMap, Busy
  <2>2. reinflate' = reinflate
    BY <1>5, Zenon DEF IncomingMap
  <2>3. Told' = Cells
    BY <2>1, BoundTypes DEF Told, Writing
  <2>4. UnreadTold'
    BY <2>1, <2>3 DEF UnreadTold
  <2>5. CallsInPlace'
    BY <1>2, <1>3, <2>1, <2>2 DEF CostmapInv, CallsInPlace, Within, Overwriting
  <2> QED
    BY <1>1, <2>4, <2>5 DEF CostmapInv
<1>6. CASE ResetLayers
  <2>1. cb = "idle" /\ cb' = "idle" /\ unread' = Cells /\ ~Locked
    BY <1>6 DEF ResetLayers
  <2>2. hasUpdated' /\ (~lost' => Area(mapX, mapWidth) = Cells)
    BY <1>6, Zenon DEF ResetLayers
  <2>3. ~lost' => Told' = Cells
    BY <1>2, <2>1, <2>2 DEF Told, Overwriting, Area
  <2>4. UnreadTold'
    BY <2>1, <2>3 DEF UnreadTold
  <2>5. CallsInPlace'
    BY <1>2, <2>1 DEF CallsInPlace, Locked, Collecting, Overwriting
  <2> QED
    BY <1>1, <2>4, <2>5 DEF CostmapInv
<1>7. CASE StartForgets
  <2>1. cb' = cb /\ incoming' = incoming /\ unread' = Cells
    BY <1>7 DEF StartForgets
  <2>2. mapReceived' = FALSE /\ reinflate' = reinflate
    BY <1>7, Zenon DEF StartForgets
  <2>3. UnreadTold'
    BY <2>1, <2>2 DEF UnreadTold
  <2>4. CallsInPlace'
    BY <1>2, <1>3, <2>1, <2>2 DEF CostmapInv, CallsInPlace, Within, Overwriting
  <2> QED
    BY <1>1, <2>3, <2>4 DEF CostmapInv
<1> QED
  BY <1>4, <1>5, <1>6, <1>7

\* incomingUpdate writes the cells of its message, and only then tells of them.
LEMMA IncomingUpdateStep ==
  ASSUME CostmapInv, CostmapTypeOK', IncomingUpdate
  PROVE  CostmapInv'
<1>1. PICK part \in Updates :
        /\ cb = "idle" /\ cb' = "update" /\ incoming' = part
        /\ static' = [c \in Cells |-> IF c \in Area(part.x, part.width) THEN Lethal - static[c]
                                      ELSE static[c]]
        /\ unread' = unread \cup Area(part.x, part.width)
  BY DEF IncomingUpdate, Busy
<1>2. UNCHANGED <<upd, bounds, at, last, radius, mapX, mapWidth, exec, obstacle, master>>
  BY DEF IncomingUpdate
<1>3. /\ hasUpdated' = hasUpdated /\ mapReceived' = mapReceived /\ lost' = lost
      /\ extra' = extra /\ reinflate' = reinflate
  BY Zenon DEF IncomingUpdate
<1>4. /\ Whole' = Whole /\ Collecting' = Collecting
      /\ ~Writing /\ Writing' /\ ~Overwriting /\ ~Overwriting'
  BY <1>1, <1>2 DEF Whole, Collecting, Writing, Overwriting
<1>5. Area(part.x, part.width) \subseteq Cells
  BY DEF Area
<1>6. Shown'
  <2>1. Pending \subseteq Pending' /\ Area(part.x, part.width) \subseteq Pending'
    BY <1>1, <1>2, <1>3, <1>4, <1>5 DEF Pending, In
  <2> QED
    BY <1>1, <1>2, <1>3, <2>1, Announced DEF Pending
<1>7. UnreadTold'
  <2>1. Told \subseteq Told' /\ Area(part.x, part.width) \subseteq Told'
    BY <1>1, <1>2, <1>3, <1>4, <1>5 DEF Told, In, Area
  <2>2. unread \subseteq Cells
    BY Typed DEF CostmapInv
  <2>3. ~mapReceived' => unread' = Cells
    BY <1>1, <1>3, <1>5, <2>2 DEF CostmapInv, UnreadTold
  <2>4. mapReceived' /\ ~lost' => unread' \subseteq Told'
    BY <1>1, <1>3, <2>1 DEF CostmapInv, UnreadTold
  <2> QED
    BY <2>3, <2>4 DEF UnreadTold
<1>8. CallsInPlace'
  BY <1>1, <1>2, <1>3, <1>4 DEF CostmapInv, CallsInPlace, Within
<1> QED
  BY <1>6, <1>7, <1>8 DEF CostmapInv

\* The callback tells of what it wrote, member by member.
LEMMA WriteSteps ==
  ASSUME CostmapInv, CostmapTypeOK', WriteX \/ WriteWidth \/ WriteReceived \/ WriteUpdated
  PROVE  CostmapInv'
<1>1. UNCHANGED <<upd, bounds, at, last, radius, exec, obstacle, static, master, incoming, unread>>
  BY DEF WriteX, WriteWidth, WriteReceived, WriteUpdated
<1>2. extra' = extra /\ reinflate' = reinflate
  <2>1. CASE WriteX
    BY <2>1, Zenon DEF WriteX
  <2>2. CASE WriteWidth
    BY <2>2, Zenon DEF WriteWidth
  <2>3. CASE WriteReceived
    BY <2>3, Zenon DEF WriteReceived
  <2>4. CASE WriteUpdated
    BY <2>4, Zenon DEF WriteUpdated
  <2> QED
    BY <2>1, <2>2, <2>3, <2>4, Zenon
<1>3. Whole' = Whole /\ Collecting' = Collecting
  BY <1>1 DEF Whole, Collecting
<1>4. Pending' = Pending
  BY <1>1, <1>2, <1>3 DEF Pending, In
<1>5. Shown'
  BY <1>1, <1>2, <1>4, Announced
<1>6. CallsInPlace'
  <2>1. /\ upd' = "inflate" => Within(at', bounds')
        /\ upd' = "costs" => Within(at', last')
        /\ upd' = "costs" /\ ~reinflate' =>
             Whole' \/ (bounds'.lo <= last'.lo - radius' /\ last'.hi + radius' <= bounds'.hi)
    BY <1>1, <1>2, <1>3 DEF CostmapInv, CallsInPlace, Within
  <2>2. /\ cb' \in {"map", "mapWidth", "received"} => incoming' = WholeGrid
        /\ Overwriting' => mapX' = incoming'.x
        /\ cb' \in {"received", "flag"} => mapWidth' = incoming'.width
        /\ cb' # "restart"
    BY <1>1 DEF CostmapInv, CallsInPlace, Overwriting, WriteX, WriteWidth, WriteReceived,
                WriteUpdated
  <2> QED
    BY <2>1, <2>2 DEF CallsInPlace, Within
<1>7. UnreadTold'
  <2>1. CASE WriteX
    <3>1. /\ Writing /\ Writing' /\ ~Overwriting /\ Overwriting'
      BY <2>1 DEF WriteX, Writing, Overwriting
    <3>2. mapReceived' = mapReceived /\ hasUpdated' = hasUpdated
          /\ lost' = (lost \/ Loses(Area(incoming.x, incoming.width)))
      BY <2>1, Zenon DEF WriteX
    <3>3. ASSUME mapReceived', ~lost', NEW c \in unread'
          PROVE  c \in Told'
      <4>1. mapReceived /\ ~lost /\ ~Loses(Area(incoming.x, incoming.width))
        BY <3>2, <3>3, Zenon
      <4>2. c \in Cells /\ c \in unread /\ Area(incoming.x, incoming.width) \subseteq Cells
        BY <1>1, <3>3 DEF CostmapInv, CostmapTypeOK, Area
      <4>3. (Collecting /\ In(c, bounds)) \/ c \in Area(incoming.x, incoming.width)
        BY <4>1, <4>2, NotLost
      <4> QED
        BY <1>1, <1>3, <3>1, <4>2, <4>3 DEF Told, In, Area
    <3> QED
      BY <1>1, <3>2, <3>3 DEF CostmapInv, UnreadTold
  <2>2. CASE WriteWidth
    <3>1. Writing /\ Writing' /\ Overwriting /\ Overwriting'
      BY <2>2 DEF WriteWidth, Writing, Overwriting
    <3>2. mapReceived' = mapReceived /\ hasUpdated' = hasUpdated /\ lost' = lost
      BY <2>2, Zenon DEF WriteWidth
    <3>3. Told' = Told
      BY <1>1, <1>3, <3>1 DEF Told, In, Area
    <3> QED
      BY <1>1, <3>2, <3>3 DEF CostmapInv, UnreadTold
  <2>3. CASE WriteReceived
    <3>1. cb = "received" /\ Writing' /\ incoming' = WholeGrid
      BY <1>1, <2>3 DEF WriteReceived, Writing, Overwriting, CostmapInv, CallsInPlace
    <3>2. mapReceived' = TRUE
      BY <2>3, Zenon DEF WriteReceived
    <3>3. Told' = Cells
      BY <3>1, BoundTypes DEF Told
    <3>4. unread' \subseteq Cells
      BY DEF CostmapTypeOK
    <3> QED
      BY <3>2, <3>3, <3>4 DEF UnreadTold
  <2>4. CASE WriteUpdated
    <3>1. /\ Writing /\ ~Writing' /\ Overwriting /\ ~Overwriting'
          /\ mapX' = incoming.x /\ mapWidth' = incoming.width
      BY <2>4 DEF WriteUpdated, Writing, Overwriting, CostmapInv, CallsInPlace
    <3>2. mapReceived' = mapReceived /\ hasUpdated' /\ lost' = lost
      BY <2>4, Zenon DEF WriteUpdated
    <3>3. Told \subseteq Told'
      BY <1>1, <1>3, <3>1, <3>2 DEF Told, In, Area
    <3> QED
      BY <1>1, <3>2, <3>3 DEF CostmapInv, UnreadTold
  <2> QED
    BY <2>1, <2>2, <2>3, <2>4
<1> QED
  BY <1>5, <1>6, <1>7 DEF CostmapInv

\* A new radius asks for the whole map to be inflated again.
LEMMA SetInflationStep ==
  ASSUME CostmapInv, CostmapTypeOK', SetInflation
  PROVE  CostmapInv'
<1>1. UNCHANGED <<upd, bounds, at, last, mapX, mapWidth, exec, cb, incoming, unread>>
  BY DEF SetInflation
<1>2. /\ hasUpdated' = hasUpdated /\ mapReceived' = mapReceived /\ lost' = lost
      /\ extra' = extra /\ reinflate'
  BY Zenon DEF SetInflation
<1>3. /\ Whole' = Whole /\ Collecting' = Collecting
      /\ Writing' = Writing /\ Overwriting' = Overwriting
  BY <1>1 DEF Whole, Collecting, Writing, Overwriting
<1>4. Shown'
  BY <1>2 DEF Shown, Obstacles, Inflated, Justified
<1>5. Told' = Told
  BY <1>1, <1>2, <1>3 DEF Told, In, Area
<1>6. UnreadTold'
  BY <1>1, <1>2, <1>5 DEF CostmapInv, UnreadTold
<1>7. CallsInPlace'
  BY <1>1, <1>2, <1>3 DEF CostmapInv, CallsInPlace, Within
<1> QED
  BY <1>4, <1>6, <1>7 DEF CostmapInv

LEMMA CostmapInvInit == CostmapInit => CostmapInv
<1> SUFFICES ASSUME CostmapInit
             PROVE  CostmapInv
  OBVIOUS
<1>1. CostmapTypeOK
  <2>1. CostmapFlags
    BY Zenon DEF CostmapInit, CostmapFlags
  <2>2. ThreadPlaces
    BY DEF CostmapInit, ThreadPlaces
  <2>3. /\ pos \in RobotPlaces /\ at \in RobotPlaces /\ events \in 0..MaxEvents
        /\ incoming \in {WholeGrid} \cup Updates /\ unread \subseteq Cells
        /\ mapX \in Cells /\ mapWidth \in 1..Size
        /\ buffer \in {<<>>} \cup {<<obs>> : obs \in Observations}
    BY Constant, WorldAssumption DEF CostmapInit
  <2>4. bounds \in Bound /\ last \in Bound /\ radius \in 0..MaxRadius
    BY BoundTypes, Constant DEF CostmapInit
  <2>5. NothingThere \in [Cells -> Costs] /\ NothingThere \in [Cells -> {NoInfo, Free, Lethal}]
    BY Constant DEF NothingThere
  <2>6. /\ master \in [Cells -> Costs] /\ static \in [Cells -> {Free, Lethal}]
        /\ obstacle \in [Cells -> {NoInfo, Free, Lethal}]
    BY <2>5, WorldAssumption DEF CostmapInit
  <2> QED
    BY <2>1, <2>2, <2>3, <2>4, <2>6 DEF CostmapTypeOK, CostmapFlags, ThreadPlaces, Bound
<1>2. CallsInPlace
  BY DEF CostmapInit, CallsInPlace, Overwriting
<1>3. ~lost /\ reinflate /\ hasUpdated
  BY Zenon DEF CostmapInit
<1>4. UnreadTold
  <2>1. Area(mapX, mapWidth) = Cells /\ ~Overwriting /\ unread = Cells
    BY Constant DEF CostmapInit, Area, Overwriting
  <2> QED
    BY <1>3, <2>1 DEF UnreadTold, Told
<1> QED
  BY <1>1, <1>2, <1>3, <1>4 DEF CostmapInv, Shown, Obstacles, Inflated, Justified

LEMMA CostmapInvStep ==
  ASSUME CostmapInv, [CostmapNext]_costmapVars
  PROVE  CostmapInv'
<1>1. CostmapTypeOK'
  BY TypeStep DEF CostmapInv
<1> HIDE DEF costmapVars
<1>2. CASE Update
  BY <1>1, <1>2, QuietSteps, BoundsSteps, ResetFlagSteps, ObstacleStep, InflationStep,
     CostsStep DEF Update
<1>3. CASE ExecutorGoesOn
  BY <1>1, <1>3, QuietSteps, WholeMapSteps, ResetFlagSteps DEF ExecutorGoesOn
<1>4. CASE CallbackGoesOn
  BY <1>1, <1>4, QuietSteps, WholeMapSteps, WriteSteps DEF CallbackGoesOn
<1>5. CASE World
  BY <1>1, <1>5, QuietSteps, WholeMapSteps, IncomingUpdateStep, SetInflationStep DEF World
<1>6. CASE Localize \/ UNCHANGED costmapVars
  BY <1>1, <1>6, QuietSteps
<1> QED
  BY <1>2, <1>3, <1>4, <1>5, <1>6 DEF CostmapNext

\* When all that was announced is taken up, only what was lost is pending.
LEMMA WhenSettled == CostmapInv => MasterIsRight
<1> SUFFICES ASSUME CostmapInv, Settled, NEW c \in Cells,
                    ~ (lost /\ \E d \in unread : Distance(c, d) <= CellDistance(radius))
             PROVE  Right(c)
  BY DEF MasterIsRight, CostmapInv
<1> DEFINE r == CellDistance(radius)
           m == master[c]
           f == FullMap(static, obstacle, r)[c]
<1>1. /\ Grid(static, obstacle) /\ r \in Reaches /\ r \in Nat /\ radius \in Nat
      /\ m \in Costs
  BY Typed, Rounded DEF CostmapInv
<1>2. mapReceived /\ ~reinflate /\ Pending \subseteq unread /\ Told = {}
  BY DEF Settled, Locked, Collecting, Whole, Pending, Told
<1>3. \A d \in Pending : d \in Cells /\ Distance(c, d) > r
  <2> TAKE d \in Pending
  <2>1. d \in Cells /\ d \in unread
    BY <1>2 DEF Pending
  <2>2. lost
    BY <1>2, <2>1 DEF CostmapInv, UnreadTold
  <2> QED
    BY <1>1, <2>1, <2>2, Distances
<1>4. \A x \in Cells : /\ Distance(c, x) \in Nat /\ Resolution * Distance(c, x) \in Nat
                       /\ Distance(c, x) > r => Resolution * Distance(c, x) > radius
  BY <1>1, Distances, Rounded
<1>5. /\ f \in 0..Lethal
      /\ \A x \in Cells : Base(x) = Lethal /\ Distance(c, x) <= r => CostAt(Distance(c, x)) <= f
      /\ \/ f = Free
         \/ \E x \in Cells : Base(x) = Lethal /\ Distance(c, x) <= r /\ f = CostAt(Distance(c, x))
  BY <1>1, FullValue DEF Base
<1>6. m = Free \/ Outermost(m) \/ Spread(c, m)
  BY <1>2, <1>3, <1>4 DEF CostmapInv, Shown, Justified
<1>7. \A x \in Cells : Base(x) = Lethal /\ Distance(c, x) <= r => CostAt(Distance(c, x)) <= m
  <2> TAKE x \in Cells
  <2> HAVE Base(x) = Lethal /\ Distance(c, x) <= r
  <2>1. x \notin Pending
    BY <1>1, <1>3, <1>4
  <2> QED
    BY <1>2, <2>1 DEF CostmapInv, Shown, Inflated
<1>8. Right(c) <=> m = f \/ (radius % Resolution # 0 /\ f = Free /\ m = CostAt(r))
  BY DEF Right
<1> HIDE DEF r, m, f
<1>9. m \in Int /\ f \in Int /\ Free <= m /\ Free <= f /\ f <= m
  <2>1. m \in Int /\ f \in Int /\ Free <= m /\ Free <= f
    BY <1>1, <1>5, Constant
  <2> QED
    BY <1>5, <1>7, <2>1
<1>10. CASE m = Free
  BY <1>8, <1>9, <1>10
<1>11. CASE Outermost(m)
  <2>1. radius % Resolution # 0 /\ m = CostAt(r)
    BY <1>11 DEF Outermost, r
  <2>2. CASE f = Free
    BY <1>8, <2>1, <2>2
  <2>3. ASSUME NEW x \in Cells, Distance(c, x) <= r, f = CostAt(Distance(c, x))
        PROVE  m = f
    <3>1. CostAt(Distance(c, x)) >= CostAt(r)
      BY <1>1, <1>4, <2>3, CostValue
    <3> QED
      BY <1>9, <2>1, <2>3, <3>1
  <2> QED
    BY <1>5, <1>8, <2>2, <2>3
<1>12. CASE Spread(c, m)
  <2>1. PICK x \in Cells : /\ Resolution * Distance(c, x) <= radius /\ Base(x) = Lethal
                          /\ m = CostAt(Distance(c, x))
    BY <1>12 DEF Spread
  <2>2. Distance(c, x) <= r
    BY <1>1, <1>4, <2>1
  <2>3. m <= f
    BY <1>5, <2>1, <2>2
  <2> QED
    BY <1>8, <1>9, <2>3
<1> QED
  BY <1>6, <1>10, <1>11, <1>12

(***************************************************************************)
(* When the updates have caught up with the layers, the master map has in  *)
(* every cell what a computation of all layers over the whole map gives,   *)
(* although every update computes only the window that the layers' bounds  *)
(* ask for (LayeredCostmap::updateMap with the layers' updateBounds), and  *)
(* the callbacks change layers while an update runs.  This holds for any   *)
(* radius and any length of a cell: one that does not divide the radius    *)
(* costs no more than the outermost ring, whose least cost may be stale    *)
(* (the second alternative of Right).  Where the static layer has          *)
(* forgotten what is new in its grid, it holds for the cells that          *)
(* inflation from that part does not reach.                                *)
(***************************************************************************)
THEOREM MasterIsAlwaysRight == CostmapSpec => []MasterIsRight
<1>1. CostmapInit => CostmapInv
  BY CostmapInvInit
<1>2. CostmapInv /\ [CostmapNext]_costmapVars => CostmapInv'
  BY CostmapInvStep
<1>3. CostmapInv => MasterIsRight
  BY WhenSettled
<1> QED
  BY <1>1, <1>2, <1>3, PTL DEF CostmapSpec

-----------------------------------------------------------------------------
(* start() waits for an update.                                              *)

\* initialized_ is set by an update's end only, and what stops the costmap resets it.
InitializedByUpdate ==
  initialized /\ exec # "stopping" => updated \/ early

LEMMA InitializedStep ==
  ASSUME InitializedByUpdate, [CostmapNext]_costmapVars
  PROVE  InitializedByUpdate'
<1> USE DEF InitializedByUpdate
<1>1. CASE UpdateDone
  <2>1. (early' = (early \/ inFlight)) /\ (updated' = (updated \/ ~inFlight))
    BY <1>1, Zenon DEF UpdateDone
  <2> QED
    BY <2>1, Zenon
<1>2. CASE Pause
  BY <1>2, Zenon DEF Pause, NotInitialized
<1>3. CASE Stop
  BY <1>3, Zenon DEF Stop
<1>4. CASE StopLayers
  BY <1>4, Zenon DEF StopLayers, NotInitialized
<1>5. \/ initialized' = initialized /\ early' = early /\ updated' = updated
      \/ UpdateDone \/ Pause \/ Stop \/ StopLayers
  <2>1. CASE UpdateHead
    BY <2>1, Zenon DEF UpdateHead
  <2>2. CASE UpdateTest
    BY <2>2, Zenon DEF UpdateTest
  <2>3. CASE StaticBounds
    BY <2>3, Zenon DEF StaticBounds
  <2>4. CASE StaticRead
    BY <2>4, Zenon DEF StaticRead
  <2>5. CASE ExtraBounds
    BY <2>5, Zenon DEF ExtraBounds
  <2>6. CASE ObstacleBounds
    BY <2>6, Zenon DEF ObstacleBounds
  <2>7. CASE InflationBounds
    BY <2>7, Zenon DEF InflationBounds
  <2>8. CASE UpdateCosts
    BY <2>8, Zenon DEF UpdateCosts
  <2>9. CASE StartForgets
    BY <2>9, Zenon DEF StartForgets
  <2>10. CASE StartHasMap
    BY <2>10, Zenon DEF StartHasMap
  <2>11. CASE StartReturns
    BY <2>11, Zenon DEF StartReturns
  <2>12. CASE ClearBounds
    BY <2>12, Zenon DEF ClearBounds
  <2>13. CASE IncomingMap
    BY <2>13, Zenon DEF IncomingMap
  <2>14. CASE WriteX
    BY <2>14, Zenon DEF WriteX
  <2>15. CASE ReconfigureJoins
    BY <2>15, Zenon DEF ReconfigureJoins
  <2>16. CASE ReconfigureRestarts
    BY <2>16, Zenon DEF ReconfigureRestarts
  <2>17. CASE Start
    BY <2>17, Zenon DEF Start
  <2>18. CASE Clear
    BY <2>18, Zenon DEF Clear
  <2>19. CASE IncomingUpdate
    BY <2>19, Zenon DEF IncomingUpdate
  <2>20. CASE MapServerSends
    BY <2>20, Zenon DEF MapServerSends
  <2>21. CASE Observe
    BY <2>21, Zenon DEF Observe
  <2>22. CASE ResetLayers
    BY <2>22, Zenon DEF ResetLayers
  <2>23. CASE SetInflation
    BY <2>23, Zenon DEF SetInflation
  <2>24. CASE ReconfigureStops
    BY <2>24, Zenon DEF ReconfigureStops
  <2>25. CASE RobotMoves
    BY <2>25, Zenon DEF RobotMoves
  <2>26. CASE GetLost
    BY <2>26, Zenon DEF GetLost
  <2>27. CASE NodeStops
    BY <2>27, Zenon DEF NodeStops
  <2>28. CASE Localize
    BY <2>28, Zenon DEF Localize
  <2>29. CASE UNCHANGED costmapVars
    BY <2>29, Zenon
  <2>30. CASE StaticLow
    BY <2>30, Zenon DEF StaticLow
  <2>31. CASE StaticHigh
    BY <2>31, Zenon DEF StaticHigh
  <2>32. CASE StaticWidth
    BY <2>32, Zenon DEF StaticWidth
  <2>33. CASE StartResets
    BY <2>33, Zenon DEF StartResets
  <2>34. CASE WriteWidth
    BY <2>34, Zenon DEF WriteWidth
  <2>35. CASE WriteReceived
    BY <2>35, Zenon DEF WriteReceived
  <2>36. CASE WriteUpdated
    BY <2>36, Zenon DEF WriteUpdated
  <2> QED
    BY <2>1, <2>2, <2>3, <2>4, <2>5, <2>6, <2>7, <2>8, <2>9, <2>10, <2>11, <2>12, <2>13, <2>14,
       <2>15, <2>16, <2>17, <2>18, <2>19, <2>20, <2>21, <2>22, <2>23, <2>24, <2>25, <2>26, <2>27,
       <2>28, <2>29, <2>30, <2>31, <2>32, <2>33, <2>34, <2>35, <2>36,
       Zenon DEF CostmapNext, Update, ExecutorGoesOn, CallbackGoesOn, World
<1>6. exec = "stopping" /\ exec' # "stopping" => StopLayers
  <2>1. CASE Update
    BY <2>1 DEF Update, UpdateHead, UpdateTest, StaticBounds, StaticLow, StaticHigh,
                StaticWidth, StaticRead, ExtraBounds, ObstacleBounds, InflationBounds,
                UpdateCosts, UpdateDone
  <2>2. CASE ExecutorGoesOn
    BY <2>2 DEF ExecutorGoesOn, StartForgets, StartResets, StartHasMap, StartReturns, ClearBounds
  <2>3. CASE CallbackGoesOn
    BY <2>3 DEF CallbackGoesOn, IncomingMap, WriteX, WriteWidth, WriteReceived, WriteUpdated,
                  ReconfigureJoins, ReconfigureRestarts
  <2>4. CASE World
    BY <2>4 DEF World, Start, Clear, IncomingUpdate, MapServerSends, Observe, ResetLayers,
                SetInflation, ReconfigureStops, RobotMoves, GetLost, NodeStops, Pause, Stop
  <2>5. CASE Localize \/ UNCHANGED costmapVars
    BY <2>5 DEF Localize
  <2> QED
    BY <2>1, <2>2, <2>3, <2>4, <2>5 DEF CostmapNext
<1>7. CASE (initialized' = initialized /\ early' = early /\ updated' = updated) /\ ~StopLayers
  <2>1. exec' # "stopping" => exec # "stopping"
    BY <1>6, <1>7, Zenon
  <2> QED
    BY <1>7, <2>1, Zenon
<1> QED
  BY <1>1, <1>2, <1>3, <1>4, <1>5, <1>7, Zenon

(***************************************************************************)
(* start() returns only when an update was made since the costmap was      *)
(* stopped, or one in progress then has ended; unless there is no thread   *)
(* to run one, or ROS shuts down (Costmap2DROS::start).                    *)
(***************************************************************************)
THEOREM StartWaitsForAnUpdate == CostmapSpec => StartMeansUpdated
<1>1. CostmapInit => InitializedByUpdate
  BY Zenon DEF CostmapInit, InitializedByUpdate
<1>2. InitializedByUpdate /\ [CostmapNext]_costmapVars => InitializedByUpdate'
  BY InitializedStep
<1>3. InitializedByUpdate /\ [CostmapNext]_costmapVars
        => [exec = "starting" /\ exec' = "idle" => updated \/ early \/ NoThread \/ ~ok]_costmapVars
  <2> SUFFICES ASSUME InitializedByUpdate, CostmapNext, exec = "starting", exec' = "idle"
               PROVE  updated \/ early \/ NoThread \/ ~ok
    OBVIOUS
  <2>1. StartReturns
    <3>1. CASE Update
      BY <3>1 DEF Update, UpdateHead, UpdateTest, StaticBounds, StaticLow, StaticHigh,
                  StaticWidth, StaticRead, ExtraBounds, ObstacleBounds, InflationBounds,
                  UpdateCosts, UpdateDone
    <3>2. CASE ExecutorGoesOn
      BY <3>2 DEF ExecutorGoesOn, StopLayers, StartForgets, StartResets, StartHasMap, ClearBounds
    <3>3. CASE CallbackGoesOn \/ Localize
      BY <3>3 DEF CallbackGoesOn, IncomingMap, WriteX, WriteWidth, WriteReceived, WriteUpdated,
                  ReconfigureJoins, ReconfigureRestarts,
                  Localize
    <3>4. CASE World
      BY <3>4 DEF World, Pause, Stop, Start, Clear, IncomingUpdate, MapServerSends, Observe,
                  ResetLayers, SetInflation, ReconfigureStops, RobotMoves, GetLost, NodeStops
    <3> QED
      BY <3>1, <3>2, <3>3, <3>4 DEF CostmapNext
  <2> QED
    BY <2>1 DEF StartReturns, InitializedByUpdate
<1> QED
  BY <1>1, <1>2, <1>3, PTL DEF CostmapSpec, StartMeansUpdated
=============================================================================

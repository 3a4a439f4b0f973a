-------------------------- MODULE SelfUpdateProofs --------------------------
(***************************************************************************)
(* selfupdate.Apply for any number of concurrent install requests and any  *)
(* set of versions: what is published is whole, the running version is     *)
(* left alone, there is a way back, and what is acknowledged is installed. *)
(* One lemma for each part of the inductive invariant, with one step for   *)
(* each action.                                                            *)
(***************************************************************************)
EXTENDS SelfUpdate, TLAPS

(* Every step keeps the types. *)
LEMMA TypeStep ==
    ASSUME Inv, [Next]_vars
    PROVE  TypeOK'
<1> USE ValuesAssumption, MaxRequestsAssumption
<1> USE DEF Inv, TypeOK, disk, ghosts, quiet, Goto, Links, Steps, Content
<1>1. ASSUME NEW h \in Handlers, NEW v \in Versions, Begin(h, v) PROVE TypeOK'
    BY <1>1 DEF Begin
<1>2. ASSUME NEW h \in Handlers, ClearStaging(h) PROVE TypeOK'
    BY <1>2 DEF ClearStaging, RemoveStaging, Moved
<1>3. ASSUME NEW h \in Handlers, MakeStaging(h) PROVE TypeOK'
    BY <1>3 DEF MakeStaging
<1>4. ASSUME NEW h \in Handlers, OpenBinary(h) PROVE TypeOK'
    BY <1>4 DEF OpenBinary
<1>5. ASSUME NEW h \in Handlers, CopyBinary(h) PROVE TypeOK'
  <2>1. PICK bytes \in {"whole", "bad"} :
          /\ stage' = IF file[h] = "staged"
                      THEN [stage EXCEPT ![version[h]] = bytes] ELSE stage
          /\ dir' = IF file[h] = "published"
                    THEN [dir EXCEPT ![version[h]] = bytes] ELSE dir
          /\ pc' = [pc EXCEPT ![h] = IF bytes = "whole" THEN "manifest"
                                     ELSE "discard"]
    BY <1>5 DEF CopyBinary
  <2>2. stage' \in [Versions -> Content] /\ dir' \in [Versions -> Content]
    BY <2>1
  <2>3. pc' \in [Handlers -> Steps]
    BY <2>1
  <2>4. QED
    BY <1>5, <2>2, <2>3 DEF CopyBinary
<1>6. ASSUME NEW h \in Handlers, Discard(h) PROVE TypeOK'
    BY <1>6 DEF Discard, RemoveStaging, Moved
<1>7. ASSUME NEW h \in Handlers, WriteManifest(h) PROVE TypeOK'
    BY <1>7 DEF WriteManifest
<1>8. ASSUME NEW h \in Handlers, Unpublish(h) PROVE TypeOK'
  <2>1. file' \in [Handlers -> {"closed", "staged", "published", "unlinked"}]
    BY <1>8 DEF Unpublish, Moved
  <2>2. dir' \in [Versions -> Content] /\ pc' \in [Handlers -> Steps]
    BY <1>8 DEF Unpublish
  <2>3. hurt' \in 0..2
    BY <1>8 DEF Unpublish
  <2>4. QED
    BY <1>8, <2>1, <2>2, <2>3 DEF Unpublish
<1>9. ASSUME NEW h \in Handlers, Promote(h) PROVE TypeOK'
    BY <1>9 DEF Promote, Moved
<1>10. ASSUME NEW h \in Handlers, ReadCurrent(h) PROVE TypeOK'
    BY <1>10 DEF ReadCurrent
<1>11. ASSUME NEW h \in Handlers, ClearPrevious(h) PROVE TypeOK'
    BY <1>11 DEF ClearPrevious, links
<1>12. ASSUME NEW h \in Handlers, WritePrevious(h) PROVE TypeOK'
    BY <1>12 DEF WritePrevious, links
<1>13. ASSUME NEW h \in Handlers, ClearCurrent(h) PROVE TypeOK'
    BY <1>13 DEF ClearCurrent, links
<1>14. ASSUME NEW h \in Handlers, WriteCurrent(h) PROVE TypeOK'
    BY <1>14 DEF WriteCurrent
<1>15. ASSUME NEW h \in Handlers, OpenMarker(h) PROVE TypeOK'
    BY <1>15 DEF OpenMarker
<1>16. ASSUME NEW h \in Handlers, FillMarker(h) PROVE TypeOK'
    BY <1>16 DEF FillMarker
<1>17. ASSUME NEW h \in Handlers, RenameMarker(h) PROVE TypeOK'
    BY <1>17 DEF RenameMarker, MarkerMoved
<1>18. ASSUME NEW h \in Handlers, Fail(h) PROVE TypeOK'
    BY <1>18 DEF Fail, TornSteps
<1>19. CASE WorkerGone
    BY <1>19 DEF WorkerGone, TornSteps
<1>20. CASE Spawn
    BY <1>20 DEF Spawn
<1>21. CASE Rollback
    BY <1>21 DEF Rollback
<1>22. CASE DeleteMarker
    BY <1>22 DEF DeleteMarker, MarkerMoved
<1>23. CASE UNCHANGED vars
    BY <1>23 DEF vars
<1>24. QED
    BY <1>1, <1>2, <1>3, <1>4, <1>5, <1>6, <1>7, <1>8, <1>9, <1>10, <1>11,
       <1>12, <1>13, <1>14, <1>15, <1>16, <1>17, <1>18, <1>19, <1>20, <1>21,
       <1>22, <1>23
       DEF Next, Apply

(* Every step keeps requests apart from the running version. *)
LEMMA RequestStep ==
    ASSUME Inv, [Next]_vars
    PROVE  RequestInv'
<1> USE ValuesAssumption, MaxRequestsAssumption
<1> USE DEF Inv, TypeOK, RequestInv, disk, ghosts, quiet, Goto, Links, Steps,
        Content
<1>1. ASSUME NEW h \in Handlers, NEW v \in Versions, Begin(h, v) PROVE RequestInv'
    BY <1>1 DEF Begin
<1>2. ASSUME NEW h \in Handlers, ClearStaging(h) PROVE RequestInv'
    BY <1>2 DEF ClearStaging, RemoveStaging, Moved
<1>3. ASSUME NEW h \in Handlers, MakeStaging(h) PROVE RequestInv'
    BY <1>3 DEF MakeStaging
<1>4. ASSUME NEW h \in Handlers, OpenBinary(h) PROVE RequestInv'
    BY <1>4 DEF OpenBinary
<1>5. ASSUME NEW h \in Handlers, CopyBinary(h) PROVE RequestInv'
    BY <1>5 DEF CopyBinary
<1>6. ASSUME NEW h \in Handlers, Discard(h) PROVE RequestInv'
    BY <1>6 DEF Discard, RemoveStaging, Moved
<1>7. ASSUME NEW h \in Handlers, WriteManifest(h) PROVE RequestInv'
    BY <1>7 DEF WriteManifest
<1>8. ASSUME NEW h \in Handlers, Unpublish(h) PROVE RequestInv'
    BY <1>8 DEF Unpublish, Moved
<1>9. ASSUME NEW h \in Handlers, Promote(h) PROVE RequestInv'
    BY <1>9 DEF Promote, Moved
<1>10. ASSUME NEW h \in Handlers, ReadCurrent(h) PROVE RequestInv'
    BY <1>10 DEF ReadCurrent
<1>11. ASSUME NEW h \in Handlers, ClearPrevious(h) PROVE RequestInv'
    BY <1>11 DEF ClearPrevious, links
<1>12. ASSUME NEW h \in Handlers, WritePrevious(h) PROVE RequestInv'
    BY <1>12 DEF WritePrevious, links
<1>13. ASSUME NEW h \in Handlers, ClearCurrent(h) PROVE RequestInv'
    BY <1>13 DEF ClearCurrent, links
<1>14. ASSUME NEW h \in Handlers, WriteCurrent(h) PROVE RequestInv'
    BY <1>14 DEF WriteCurrent
<1>15. ASSUME NEW h \in Handlers, OpenMarker(h) PROVE RequestInv'
    BY <1>15 DEF OpenMarker
<1>16. ASSUME NEW h \in Handlers, FillMarker(h) PROVE RequestInv'
    BY <1>16 DEF FillMarker
<1>17. ASSUME NEW h \in Handlers, RenameMarker(h) PROVE RequestInv'
    BY <1>17 DEF RenameMarker, MarkerMoved
<1>18. ASSUME NEW h \in Handlers, Fail(h) PROVE RequestInv'
    BY <1>18 DEF Fail, TornSteps
<1>19. CASE WorkerGone
    BY <1>19 DEF WorkerGone, TornSteps
<1>20. CASE Spawn
    BY <1>20 DEF Spawn
<1>21. CASE Rollback
    BY <1>21 DEF Rollback
<1>22. CASE DeleteMarker
    BY <1>22 DEF DeleteMarker, MarkerMoved
<1>23. CASE UNCHANGED vars
    BY <1>23 DEF vars
<1>24. QED
    BY <1>1, <1>2, <1>3, <1>4, <1>5, <1>6, <1>7, <1>8, <1>9, <1>10, <1>11,
       <1>12, <1>13, <1>14, <1>15, <1>16, <1>17, <1>18, <1>19, <1>20, <1>21,
       <1>22, <1>23
       DEF Next, Apply

(* Every overlap of two requests is noted. *)
LEMMA RaceStep ==
    ASSUME Inv, [Next]_vars
    PROVE  RaceInv'
<1> USE ValuesAssumption, MaxRequestsAssumption
<1> USE DEF Inv, TypeOK, RequestInv, RaceInv, disk, ghosts, quiet, Goto,
        Links, Steps, Content
<1>1. ASSUME NEW h \in Handlers, NEW v \in Versions, Begin(h, v) PROVE RaceInv'
    BY <1>1 DEF Begin
<1>2. ASSUME NEW h \in Handlers, ClearStaging(h) PROVE RaceInv'
    BY <1>2 DEF ClearStaging, RemoveStaging, Moved
<1>3. ASSUME NEW h \in Handlers, MakeStaging(h) PROVE RaceInv'
    BY <1>3 DEF MakeStaging
<1>4. ASSUME NEW h \in Handlers, OpenBinary(h) PROVE RaceInv'
    BY <1>4 DEF OpenBinary
<1>5. ASSUME NEW h \in Handlers, CopyBinary(h) PROVE RaceInv'
    BY <1>5 DEF CopyBinary
<1>6. ASSUME NEW h \in Handlers, Discard(h) PROVE RaceInv'
    BY <1>6 DEF Discard, RemoveStaging, Moved
<1>7. ASSUME NEW h \in Handlers, WriteManifest(h) PROVE RaceInv'
    BY <1>7 DEF WriteManifest
<1>8. ASSUME NEW h \in Handlers, Unpublish(h) PROVE RaceInv'
    BY <1>8 DEF Unpublish, Moved
<1>9. ASSUME NEW h \in Handlers, Promote(h) PROVE RaceInv'
    BY <1>9 DEF Promote, Moved
<1>10. ASSUME NEW h \in Handlers, ReadCurrent(h) PROVE RaceInv'
    BY <1>10 DEF ReadCurrent
<1>11. ASSUME NEW h \in Handlers, ClearPrevious(h) PROVE RaceInv'
    BY <1>11 DEF ClearPrevious, links
<1>12. ASSUME NEW h \in Handlers, WritePrevious(h) PROVE RaceInv'
    BY <1>12 DEF WritePrevious, links
<1>13. ASSUME NEW h \in Handlers, ClearCurrent(h) PROVE RaceInv'
    BY <1>13 DEF ClearCurrent, links
<1>14. ASSUME NEW h \in Handlers, WriteCurrent(h) PROVE RaceInv'
    BY <1>14 DEF WriteCurrent
<1>15. ASSUME NEW h \in Handlers, OpenMarker(h) PROVE RaceInv'
    BY <1>15 DEF OpenMarker
<1>16. ASSUME NEW h \in Handlers, FillMarker(h) PROVE RaceInv'
    BY <1>16 DEF FillMarker
<1>17. ASSUME NEW h \in Handlers, RenameMarker(h) PROVE RaceInv'
    BY <1>17 DEF RenameMarker, MarkerMoved
<1>18. ASSUME NEW h \in Handlers, Fail(h) PROVE RaceInv'
    BY <1>18 DEF Fail, TornSteps
<1>19. CASE WorkerGone
    BY <1>19 DEF WorkerGone, TornSteps
<1>20. CASE Spawn
    BY <1>20 DEF Spawn
<1>21. CASE Rollback
    BY <1>21 DEF Rollback
<1>22. CASE DeleteMarker
    BY <1>22 DEF DeleteMarker, MarkerMoved
<1>23. CASE UNCHANGED vars
    BY <1>23 DEF vars
<1>24. QED
    BY <1>1, <1>2, <1>3, <1>4, <1>5, <1>6, <1>7, <1>8, <1>9, <1>10, <1>11,
       <1>12, <1>13, <1>14, <1>15, <1>16, <1>17, <1>18, <1>19, <1>20, <1>21,
       <1>22, <1>23
       DEF Next, Apply

(* No step leaves a request with a bad staging directory that nobody is     *)
(* going to rewrite or discard.                                             *)
LEMMA StageStep ==
    ASSUME Inv, [Next]_vars
    PROVE  StageInv'
<1> USE ValuesAssumption, MaxRequestsAssumption
<1> USE DEF Inv, TypeOK, RequestInv, RaceInv, StageInv, Staging, disk, ghosts,
        quiet, Goto, Links, Steps, Content
<1>1. ASSUME NEW h \in Handlers, NEW v \in Versions, Begin(h, v) PROVE StageInv'
    BY <1>1 DEF Begin
<1>2. ASSUME NEW h \in Handlers, ClearStaging(h) PROVE StageInv'
  <2> DEFINE Owns(g) == \/ pc[g] \in {"open", "discard"}
                        \/ pc[g] = "copy" /\ file[g] = "staged"
  <2>1. /\ stage' = [stage EXCEPT ![version[h]] = "absent"]
        /\ version[h] \in Versions
    BY <1>2 DEF ClearStaging, RemoveStaging
  <2>2. \A g \in Handlers : g # h =>
          pc'[g] = pc[g] /\ version'[g] = version[g]
    BY <1>2 DEF ClearStaging, RemoveStaging
  <2>3. \A g \in Handlers : g # h /\ version[g] # version[h] =>
          file'[g] = file[g]
    BY <1>2 DEF ClearStaging, RemoveStaging, Moved
  <2>4. \A g \in Handlers : file'[g] = "published" => file[g] = "published"
    BY <1>2 DEF ClearStaging, RemoveStaging, Moved
  <2>5. pc'[h] = "mkdir" /\ version'[h] = version[h]
    BY <1>2 DEF ClearStaging, RemoveStaging
  <2>6. ASSUME NEW g \in Handlers,
               (pc[g] \in Staging)', (stage[version[g]] = "bad")'
        PROVE  \E k \in Handlers :
                 /\ (version[k] = version[g])'
                 /\ \/ (pc[k] \in {"open", "discard"})'
                    \/ (pc[k] = "copy" /\ file[k] = "staged")'
    <3>1. g # h /\ version[g] # version[h] /\ stage[version[g]] = "bad"
      BY <2>1, <2>2, <2>5, <2>6
    <3>2. PICK k \in Handlers : version[k] = version[g] /\ Owns(k)
      BY <2>2, <2>6, <3>1
    <3>3. k # h /\ version[k] # version[h]
      BY <3>1, <3>2
    <3>4. QED
      BY <2>2, <2>3, <3>1, <3>2, <3>3
  <2>7. ASSUME NEW g \in Handlers, (pc[g] = "copy")', (file[g] = "published")'
        PROVE  (version[g] \in raced)'
    <3>1. g # h
      BY <2>5, <2>7
    <3>2. QED
      BY <1>2, <2>2, <2>4, <2>7, <3>1 DEF ClearStaging, RemoveStaging
  <2>8. QED
    BY <2>6, <2>7
<1>3. ASSUME NEW h \in Handlers, MakeStaging(h) PROVE StageInv'
    BY <1>3 DEF MakeStaging
<1>4. ASSUME NEW h \in Handlers, OpenBinary(h) PROVE StageInv'
    BY <1>4 DEF OpenBinary
<1>5. ASSUME NEW h \in Handlers, CopyBinary(h) PROVE StageInv'
    BY <1>5 DEF CopyBinary
<1>6. ASSUME NEW h \in Handlers, Discard(h) PROVE StageInv'
  <2> DEFINE Owns(g) == \/ pc[g] \in {"open", "discard"}
                        \/ pc[g] = "copy" /\ file[g] = "staged"
  <2>1. /\ stage' = [stage EXCEPT ![version[h]] = "absent"]
        /\ version[h] \in Versions
    BY <1>6 DEF Discard, RemoveStaging
  <2>2. \A g \in Handlers : g # h =>
          pc'[g] = pc[g] /\ version'[g] = version[g]
    BY <1>6 DEF Discard, RemoveStaging
  <2>3. \A g \in Handlers : g # h /\ version[g] # version[h] =>
          file'[g] = file[g]
    BY <1>6 DEF Discard, RemoveStaging, Moved
  <2>4. \A g \in Handlers : file'[g] = "published" => file[g] = "published"
    BY <1>6 DEF Discard, RemoveStaging, Moved
  <2>5. pc'[h] = "idle"
    BY <1>6 DEF Discard, RemoveStaging
  <2>6. ASSUME NEW g \in Handlers,
               (pc[g] \in Staging)', (stage[version[g]] = "bad")'
        PROVE  \E k \in Handlers :
                 /\ (version[k] = version[g])'
                 /\ \/ (pc[k] \in {"open", "discard"})'
                    \/ (pc[k] = "copy" /\ file[k] = "staged")'
    <3>1. g # h /\ version[g] # version[h] /\ stage[version[g]] = "bad"
      BY <2>1, <2>2, <2>5, <2>6
    <3>2. PICK k \in Handlers : version[k] = version[g] /\ Owns(k)
      BY <2>2, <2>6, <3>1
    <3>3. k # h /\ version[k] # version[h]
      BY <3>1, <3>2
    <3>4. QED
      BY <2>2, <2>3, <3>1, <3>2, <3>3
  <2>7. ASSUME NEW g \in Handlers, (pc[g] = "copy")', (file[g] = "published")'
        PROVE  (version[g] \in raced)'
    <3>1. g # h
      BY <2>5, <2>7
    <3>2. QED
      BY <1>6, <2>2, <2>4, <2>7, <3>1 DEF Discard, RemoveStaging
  <2>8. QED
    BY <2>6, <2>7
<1>7. ASSUME NEW h \in Handlers, WriteManifest(h) PROVE StageInv'
    BY <1>7 DEF WriteManifest
<1>8. ASSUME NEW h \in Handlers, Unpublish(h) PROVE StageInv'
    BY <1>8 DEF Unpublish, Moved
<1>9. ASSUME NEW h \in Handlers, Promote(h) PROVE StageInv'
    BY <1>9 DEF Promote, Moved
<1>10. ASSUME NEW h \in Handlers, ReadCurrent(h) PROVE StageInv'
    BY <1>10 DEF ReadCurrent
<1>11. ASSUME NEW h \in Handlers, ClearPrevious(h) PROVE StageInv'
    BY <1>11 DEF ClearPrevious, links
<1>12. ASSUME NEW h \in Handlers, WritePrevious(h) PROVE StageInv'
    BY <1>12 DEF WritePrevious, links
<1>13. ASSUME NEW h \in Handlers, ClearCurrent(h) PROVE StageInv'
    BY <1>13 DEF ClearCurrent, links
<1>14. ASSUME NEW h \in Handlers, WriteCurrent(h) PROVE StageInv'
    BY <1>14 DEF WriteCurrent
<1>15. ASSUME NEW h \in Handlers, OpenMarker(h) PROVE StageInv'
    BY <1>15 DEF OpenMarker
<1>16. ASSUME NEW h \in Handlers, FillMarker(h) PROVE StageInv'
    BY <1>16 DEF FillMarker
<1>17. ASSUME NEW h \in Handlers, RenameMarker(h) PROVE StageInv'
    BY <1>17 DEF RenameMarker, MarkerMoved
<1>18. ASSUME NEW h \in Handlers, Fail(h) PROVE StageInv'
    BY <1>18 DEF Fail, TornSteps
<1>19. CASE WorkerGone
    BY <1>19 DEF WorkerGone, TornSteps
<1>20. CASE Spawn
    BY <1>20 DEF Spawn
<1>21. CASE Rollback
    BY <1>21 DEF Rollback
<1>22. CASE DeleteMarker
    BY <1>22 DEF DeleteMarker, MarkerMoved
<1>23. CASE UNCHANGED vars
    BY <1>23 DEF vars
<1>24. QED
    BY <1>1, <1>2, <1>3, <1>4, <1>5, <1>6, <1>7, <1>8, <1>9, <1>10, <1>11,
       <1>12, <1>13, <1>14, <1>15, <1>16, <1>17, <1>18, <1>19, <1>20, <1>21,
       <1>22, <1>23
       DEF Next, Apply

(* No step publishes a bad directory without a race, or touches the one the *)
(* worker runs from.                                                        *)
LEMMA DirStep ==
    ASSUME Inv, [Next]_vars
    PROVE  PublishedIsWhole' /\ RunningKept'
<1> USE ValuesAssumption, MaxRequestsAssumption
<1> USE DEF Inv, TypeOK, RequestInv, RaceInv, StageInv, Staging,
        PublishedIsWhole, RunningKept, disk, ghosts, quiet, Goto, Links,
        Steps, Content
<1>1. ASSUME NEW h \in Handlers, NEW v \in Versions, Begin(h, v)
      PROVE  PublishedIsWhole' /\ RunningKept'
    BY <1>1 DEF Begin
<1>2. ASSUME NEW h \in Handlers, ClearStaging(h)
      PROVE  PublishedIsWhole' /\ RunningKept'
    BY <1>2 DEF ClearStaging, RemoveStaging, Moved
<1>3. ASSUME NEW h \in Handlers, MakeStaging(h)
      PROVE  PublishedIsWhole' /\ RunningKept'
    BY <1>3 DEF MakeStaging
<1>4. ASSUME NEW h \in Handlers, OpenBinary(h)
      PROVE  PublishedIsWhole' /\ RunningKept'
    BY <1>4 DEF OpenBinary
<1>5. ASSUME NEW h \in Handlers, CopyBinary(h)
      PROVE  PublishedIsWhole' /\ RunningKept'
    BY <1>5 DEF CopyBinary
<1>6. ASSUME NEW h \in Handlers, Discard(h)
      PROVE  PublishedIsWhole' /\ RunningKept'
    BY <1>6 DEF Discard, RemoveStaging, Moved
<1>7. ASSUME NEW h \in Handlers, WriteManifest(h)
      PROVE  PublishedIsWhole' /\ RunningKept'
    BY <1>7 DEF WriteManifest
<1>8. ASSUME NEW h \in Handlers, Unpublish(h)
      PROVE  PublishedIsWhole' /\ RunningKept'
    BY <1>8 DEF Unpublish, Moved
<1>9. ASSUME NEW h \in Handlers, Promote(h)
      PROVE  PublishedIsWhole' /\ RunningKept'
    BY <1>9 DEF Promote, Moved
<1>10. ASSUME NEW h \in Handlers, ReadCurrent(h)
      PROVE  PublishedIsWhole' /\ RunningKept'
    BY <1>10 DEF ReadCurrent
<1>11. ASSUME NEW h \in Handlers, ClearPrevious(h)
      PROVE  PublishedIsWhole' /\ RunningKept'
    BY <1>11 DEF ClearPrevious, links
<1>12. ASSUME NEW h \in Handlers, WritePrevious(h)
      PROVE  PublishedIsWhole' /\ RunningKept'
    BY <1>12 DEF WritePrevious, links
<1>13. ASSUME NEW h \in Handlers, ClearCurrent(h)
      PROVE  PublishedIsWhole' /\ RunningKept'
    BY <1>13 DEF ClearCurrent, links
<1>14. ASSUME NEW h \in Handlers, WriteCurrent(h)
      PROVE  PublishedIsWhole' /\ RunningKept'
    BY <1>14 DEF WriteCurrent
<1>15. ASSUME NEW h \in Handlers, OpenMarker(h)
      PROVE  PublishedIsWhole' /\ RunningKept'
    BY <1>15 DEF OpenMarker
<1>16. ASSUME NEW h \in Handlers, FillMarker(h)
      PROVE  PublishedIsWhole' /\ RunningKept'
    BY <1>16 DEF FillMarker
<1>17. ASSUME NEW h \in Handlers, RenameMarker(h)
      PROVE  PublishedIsWhole' /\ RunningKept'
    BY <1>17 DEF RenameMarker, MarkerMoved
<1>18. ASSUME NEW h \in Handlers, Fail(h)
      PROVE  PublishedIsWhole' /\ RunningKept'
    BY <1>18 DEF Fail, TornSteps
<1>19. CASE WorkerGone
    BY <1>19 DEF WorkerGone, TornSteps
<1>20. CASE Spawn
    BY <1>20 DEF Spawn
<1>21. CASE Rollback
    BY <1>21 DEF Rollback
<1>22. CASE DeleteMarker
    BY <1>22 DEF DeleteMarker, MarkerMoved
<1>23. CASE UNCHANGED vars
    BY <1>23 DEF vars
<1>24. QED
    BY <1>1, <1>2, <1>3, <1>4, <1>5, <1>6, <1>7, <1>8, <1>9, <1>10, <1>11,
       <1>12, <1>13, <1>14, <1>15, <1>16, <1>17, <1>18, <1>19, <1>20, <1>21,
       <1>22, <1>23
       DEF Next, Apply

(* A request alone gets from step to step with what it has achieved. *)
LEMMA AckStep ==
    ASSUME Inv, [Next]_vars
    PROVE  AckInv'
<1> USE ValuesAssumption, MaxRequestsAssumption
<1> USE DEF Inv, TypeOK, RequestInv, RaceInv, StageInv, Staging,
        PublishedIsWhole, AckInv, Marking, Published, disk, ghosts, quiet,
        Goto, Links, Steps, Content
<1>1. ASSUME NEW h \in Handlers, NEW v \in Versions, Begin(h, v) PROVE AckInv'
    BY <1>1 DEF Begin
<1>2. ASSUME NEW h \in Handlers, ClearStaging(h) PROVE AckInv'
    BY <1>2 DEF ClearStaging, RemoveStaging, Moved
<1>3. ASSUME NEW h \in Handlers, MakeStaging(h) PROVE AckInv'
    BY <1>3 DEF MakeStaging
<1>4. ASSUME NEW h \in Handlers, OpenBinary(h) PROVE AckInv'
    BY <1>4 DEF OpenBinary
<1>5. ASSUME NEW h \in Handlers, CopyBinary(h) PROVE AckInv'
    BY <1>5 DEF CopyBinary
<1>6. ASSUME NEW h \in Handlers, Discard(h) PROVE AckInv'
    BY <1>6 DEF Discard, RemoveStaging, Moved
<1>7. ASSUME NEW h \in Handlers, WriteManifest(h) PROVE AckInv'
    BY <1>7 DEF WriteManifest
<1>8. ASSUME NEW h \in Handlers, Unpublish(h) PROVE AckInv'
    BY <1>8 DEF Unpublish, Moved
<1>9. ASSUME NEW h \in Handlers, Promote(h) PROVE AckInv'
    BY <1>9 DEF Promote, Moved
<1>10. ASSUME NEW h \in Handlers, ReadCurrent(h) PROVE AckInv'
    BY <1>10 DEF ReadCurrent
<1>11. ASSUME NEW h \in Handlers, ClearPrevious(h) PROVE AckInv'
    BY <1>11 DEF ClearPrevious, links
<1>12. ASSUME NEW h \in Handlers, WritePrevious(h) PROVE AckInv'
    BY <1>12 DEF WritePrevious, links
<1>13. ASSUME NEW h \in Handlers, ClearCurrent(h) PROVE AckInv'
    BY <1>13 DEF ClearCurrent, links
<1>14. ASSUME NEW h \in Handlers, WriteCurrent(h) PROVE AckInv'
    BY <1>14 DEF WriteCurrent
<1>15. ASSUME NEW h \in Handlers, OpenMarker(h) PROVE AckInv'
    BY <1>15 DEF OpenMarker
<1>16. ASSUME NEW h \in Handlers, FillMarker(h) PROVE AckInv'
    BY <1>16 DEF FillMarker
<1>17. ASSUME NEW h \in Handlers, RenameMarker(h) PROVE AckInv'
    BY <1>17 DEF RenameMarker, MarkerMoved
<1>18. ASSUME NEW h \in Handlers, Fail(h) PROVE AckInv'
    BY <1>18 DEF Fail, TornSteps
<1>19. CASE WorkerGone
    BY <1>19 DEF WorkerGone, TornSteps
<1>20. CASE Spawn
    BY <1>20 DEF Spawn
<1>21. CASE Rollback
    BY <1>21 DEF Rollback
<1>22. CASE DeleteMarker
    BY <1>22 DEF DeleteMarker, MarkerMoved
<1>23. CASE UNCHANGED vars
    BY <1>23 DEF vars
<1>24. QED
    BY <1>1, <1>2, <1>3, <1>4, <1>5, <1>6, <1>7, <1>8, <1>9, <1>10, <1>11,
       <1>12, <1>13, <1>14, <1>15, <1>16, <1>17, <1>18, <1>19, <1>20, <1>21,
       <1>22, <1>23
       DEF Next, Apply

(* A request alone leaves a good link behind at every step. *)
LEMMA LinkStep ==
    ASSUME Inv, [Next]_vars
    PROVE  LinkInv'
<1> USE ValuesAssumption, MaxRequestsAssumption
<1> USE DEF Inv, TypeOK, RequestInv, RaceInv, StageInv, Staging,
        PublishedIsWhole, RunningKept, AckInv, LinkInv, Rest, Runnable,
        TornSteps, Marking, Published, disk, ghosts, quiet, Goto, Links,
        Steps, Content
<1>1. ASSUME NEW h \in Handlers, NEW v \in Versions, Begin(h, v) PROVE LinkInv'
    BY <1>1 DEF Begin
<1>2. ASSUME NEW h \in Handlers, ClearStaging(h) PROVE LinkInv'
    BY <1>2 DEF ClearStaging, RemoveStaging, Moved
<1>3. ASSUME NEW h \in Handlers, MakeStaging(h) PROVE LinkInv'
    BY <1>3 DEF MakeStaging
<1>4. ASSUME NEW h \in Handlers, OpenBinary(h) PROVE LinkInv'
    BY <1>4 DEF OpenBinary
<1>5. ASSUME NEW h \in Handlers, CopyBinary(h) PROVE LinkInv'
    BY <1>5 DEF CopyBinary
<1>6. ASSUME NEW h \in Handlers, Discard(h) PROVE LinkInv'
    BY <1>6 DEF Discard, RemoveStaging, Moved
<1>7. ASSUME NEW h \in Handlers, WriteManifest(h) PROVE LinkInv'
    BY <1>7 DEF WriteManifest
<1>8. ASSUME NEW h \in Handlers, Unpublish(h) PROVE LinkInv'
    BY <1>8 DEF Unpublish, Moved
<1>9. ASSUME NEW h \in Handlers, Promote(h) PROVE LinkInv'
    BY <1>9 DEF Promote, Moved
<1>10. ASSUME NEW h \in Handlers, ReadCurrent(h) PROVE LinkInv'
    BY <1>10 DEF ReadCurrent
<1>11. ASSUME NEW h \in Handlers, ClearPrevious(h) PROVE LinkInv'
    BY <1>11 DEF ClearPrevious, links
<1>12. ASSUME NEW h \in Handlers, WritePrevious(h) PROVE LinkInv'
    BY <1>12 DEF WritePrevious, links
<1>13. ASSUME NEW h \in Handlers, ClearCurrent(h) PROVE LinkInv'
    BY <1>13 DEF ClearCurrent, links
<1>14. ASSUME NEW h \in Handlers, WriteCurrent(h) PROVE LinkInv'
    BY <1>14 DEF WriteCurrent
<1>15. ASSUME NEW h \in Handlers, OpenMarker(h) PROVE LinkInv'
    BY <1>15 DEF OpenMarker
<1>16. ASSUME NEW h \in Handlers, FillMarker(h) PROVE LinkInv'
    BY <1>16 DEF FillMarker
<1>17. ASSUME NEW h \in Handlers, RenameMarker(h) PROVE LinkInv'
    BY <1>17 DEF RenameMarker, MarkerMoved
<1>18. ASSUME NEW h \in Handlers, Fail(h) PROVE LinkInv'
    BY <1>18 DEF Fail, TornSteps
<1>19. CASE WorkerGone
    BY <1>19 DEF WorkerGone, TornSteps
<1>20. CASE Spawn
    BY <1>20 DEF Spawn
<1>21. CASE Rollback
    BY <1>21 DEF Rollback
<1>22. CASE DeleteMarker
    BY <1>22 DEF DeleteMarker, MarkerMoved
<1>23. CASE UNCHANGED vars
    BY <1>23 DEF vars
<1>24. QED
    BY <1>1, <1>2, <1>3, <1>4, <1>5, <1>6, <1>7, <1>8, <1>9, <1>10, <1>11,
       <1>12, <1>13, <1>14, <1>15, <1>16, <1>17, <1>18, <1>19, <1>20, <1>21,
       <1>22, <1>23
       DEF Next, Apply

(* The inductive invariant holds in every reachable state. *)
LEMMA Invariance == Spec => []Inv
<1>1. Init => Inv
  <2> SUFFICES ASSUME Init PROVE Inv
    OBVIOUS
  <2> USE ValuesAssumption, MaxRequestsAssumption
  <2>1. TypeOK
    <3>1. dir \in [Versions -> Content] /\ current \in Links /\ running \in Links
      BY DEF Init, Links, Content
    <3>2. stage \in [Versions -> Content] /\ pc \in [Handlers -> Steps]
      BY DEF Init, Content, Steps
    <3>3. /\ version \in [Handlers -> Links] /\ before \in [Handlers -> Links]
          /\ file \in [Handlers -> {"closed", "staged", "published", "unlinked"}]
      BY DEF Init, Links
    <3>4. /\ previous \in Links
          /\ markerTmp \in Links \cup {Torn} /\ marker \in Links \cup {Torn}
          /\ requests \in 0..MaxRequests /\ raced \subseteq Versions
          /\ hurt \in 0..2
      BY DEF Init, Links
    <3>5. together \in BOOLEAN
      BY DEF Init
    <3>6. QED
      BY <3>1, <3>2, <3>3, <3>4, <3>5 DEF TypeOK
  <2>2. RequestInv /\ RaceInv /\ StageInv
    BY DEF Init, RequestInv, RaceInv, StageInv, Staging
  <2>3. PublishedIsWhole /\ RunningKept
    BY DEF Init, PublishedIsWhole, RunningKept
  <2>4. AckInv /\ LinkInv
    BY DEF Init, AckInv, LinkInv, Rest, Runnable, Marking, Published, TornSteps
  <2>5. QED
    BY <2>1, <2>2, <2>3, <2>4 DEF Inv
<1>2. Inv /\ [Next]_vars => Inv'
    BY TypeStep, RequestStep, RaceStep, StageStep, DirStep, AckStep, LinkStep
       DEF Inv
<1>3. QED
    BY <1>1, <1>2, PTL DEF Spec

(* Names, links, markers and open files stay what their types say, for any  *)
(* number of install requests at once.                                      *)
THEOREM SelfUpdateTypes == Spec => []TypeOK
<1>1. Inv => TypeOK
    BY DEF Inv
<1>2. QED
    BY <1>1, Invariance, PTL

(* A published version directory holds exactly the signed binary, unless    *)
(* two requests were installing that version at once and none has published *)
(* it alone since, whatever fails or is killed.                             *)
THEOREM PublishedWhole == Spec => []PublishedIsWhole
<1>1. Inv => PublishedIsWhole
    BY DEF Inv
<1>2. QED
    BY <1>1, Invariance, PTL

(* No install touches the directory the worker runs from. *)
THEOREM RunningUntouched == Spec => []RunningKept
<1>1. Inv => RunningKept
    BY DEF Inv
<1>2. QED
    BY <1>1, Invariance, PTL

(* At every instant of an Apply that runs alone, and after a kill there,    *)
(* one of the links names a whole directory.                                *)
THEOREM AlwaysAWayBack == Spec => []WayBack
<1>1. Inv => WayBack
  <2> SUFFICES ASSUME Inv, ~together, hurt < 2
               PROVE  Runnable(current) \/ Runnable(previous)
    BY DEF WayBack
  <2>1. CASE hurt = 1
    BY <2>1 DEF Inv, LinkInv
  <2>2. CASE hurt = 0
    <3>1. CASE \A h \in Handlers : pc[h] \notin TornSteps
      BY <2>2, <3>1 DEF Inv, LinkInv, Rest
    <3>2. CASE \E h \in Handlers : pc[h] \in TornSteps
      BY <2>2, <3>2 DEF Inv, TypeOK, RequestInv, LinkInv, TornSteps, Runnable,
                        Links
    <3>3. QED
      BY <3>1, <3>2
  <2>3. QED
    BY <2>1, <2>2 DEF Inv, TypeOK
<1>2. QED
    BY <1>1, Invariance, PTL

(* A request alone that is about to restart the worker has installed what   *)
(* it says.                                                                 *)
THEOREM AcknowledgedInstall == Spec => []AckedIsInstalled
<1>1. Inv => AckedIsInstalled
    BY DEF Inv, AckInv, AckedIsInstalled, Marking, Published
<1>2. QED
    BY <1>1, Invariance, PTL
=============================================================================

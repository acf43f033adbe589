-------------------------- MODULE QubeConnection_proofs -------------------------
(***************************************************************************)
(* Proofs about QubeConnection for any codes, kinds of qube and users.     *)
(***************************************************************************)
EXTENDS QubeConnection, SequenceTheorems, TLAPS

\* What an entrypoint that exited with e makes of status and code.
LEMMA EntryFacts ==
  ASSUME NEW e \in Int
  PROVE  /\ EntryStatus(e) \in {"success", "error", "no updates"}
         /\ EntryStatus(e) = "success" => e <= OK
         /\ EntryStatus(e) = "error" => e > OK /\ EntryCode(e) = e
         /\ EntryCode(e) \in Int
         /\ \A c \in Nat : MaxOf(c, EntryCode(e)) \in Nat /\ EntryCode(e) <= MaxOf(c, EntryCode(e))
  BY DEF EntryStatus, EntryCode, MaxOf, OK, OK_NO_UPDATES

\* The codes an agent can exit with are integers.
LEMMA EntryCodesInt == EntryCodes \cup {NoAgentCode, ERR} \subseteq Int
  BY ConnectionAssumption DEF NoAgentCode, ERR

\* The words a call says, one or two.
LEMMA Words ==
  ASSUME NEW a \in FinalStatus
  PROVE  /\ Append(<<>>, a) = <<a>> /\ <<a>> \in Seq(FinalStatus)
         /\ Len(<<a>>) = 1 /\ <<a>>[1] = a
         /\ \A b \in FinalStatus :
              /\ Append(<<b>>, a) \in Seq(FinalStatus)
              /\ Len(Append(<<b>>, a)) = 2 /\ Append(<<b>>, a)[2] = a
  <1>1. Append(<<>>, a) = <<a>> /\ <<a>> \in Seq(FinalStatus) /\ Len(<<a>>) = 1 /\ <<a>>[1] = a
    OBVIOUS
  <1>2. ASSUME NEW b \in FinalStatus
        PROVE  /\ Append(<<b>>, a) \in Seq(FinalStatus)
               /\ Len(Append(<<b>>, a)) = 2 /\ Append(<<b>>, a)[2] = a
    <2>1. <<b>> \in Seq(FinalStatus) /\ Len(<<b>>) = 1
      OBVIOUS
    <2> QED
      BY <2>1, AppendProperties
  <1> QED
    BY <1>1, <1>2

\* The invariant holds before the call.
LEMMA SessionInit == Init => SessionInv
  <1> SUFFICES ASSUME Init PROVE SessionInv
    OBVIOUS
  <1>1. dones = <<>> /\ dones \in Seq(FinalStatus) /\ Len(dones) = 0
    BY DEF Init
  <1>2. TypeOK
    <2>1. workdir \subseteq {"dir", "archive"} \cup Agents
      BY DEF Init, Agents
    <2>2. code \in Nat /\ exit \in Int
      BY DEF Init, OK
    <2>3. dones \in Seq(FinalStatus) /\ Len(dones) <= 2
      BY <1>1
    <2>4. status \in FinalStatus
      BY DEF Init, FinalStatus
    <2>5. failures \subseteq {"rm", "shutdown"} /\ kind \in Kinds
      BY DEF Init
    <2>6. power \in {"halted", "halting", "running"} /\ starter \in {"before", "session", "other"}
      BY DEF Init
    <2> QED
      BY <2>1, <2>2, <2>3, <2>4, <2>5, <2>6 DEF Init, TypeOK
  <1>3. pc = "begin" /\ status = "error" /\ exit = OK /\ "new" \notin workdir
    BY DEF Init
  <1> QED
    BY <1>1, <1>2, <1>3
    DEF Init, SessionInv, DonesInv, StatusInv, CleanupInv, LastWordAgrees, Reporting, Ending

\* Every step keeps the variables in their types.
LEMMA TypeStep ==
  ASSUME TypeOK, DonesInv, [Next]_vars
  PROVE  TypeOK'
  <1> USE ConnectionAssumption DEF TypeOK, Agents, OK, ERR, SIGINT, ERR_VM_UNHANDLED
  <1>0. {"success", "error", "cancelled", "no updates"} = FinalStatus
    BY DEF FinalStatus
  <1>1. CASE CancelBeforeStart
    <2>1. dones = <<>>
      BY <1>1 DEF CancelBeforeStart, DonesInv, Reporting, Ending
    <2>2. dones' \in Seq(FinalStatus) /\ Len(dones') <= 2
      <3>1. "cancelled" \in FinalStatus /\ dones' = Append(<<>>, "cancelled")
        BY <1>1, <2>1, <1>0 DEF CancelBeforeStart, Say
      <3> QED
        BY <3>1, Words
    <2>3. code' \in Nat /\ exit' \in Int
      BY <1>1 DEF CancelBeforeStart
    <2> QED
      BY <1>0, <1>1, <2>2, <2>3 DEF CancelBeforeStart, GoTo, callVars, qubeVars
  <1>2. CASE Begin
    BY <1>2 DEF Begin, GoTo, callVars, qubeVars
  <1>3. CASE Enter
    BY <1>3 DEF Enter, GoTo, IsRunning, Admin, callVars, qubeVars
  <1>4. CASE FailToOpen
    BY <1>4 DEF FailToOpen, GoTo, callVars, qubeVars
  <1>5. CASE Mkdir
    BY <1>5 DEF Mkdir, GoTo, Reached, Attempted, callVars, qubeVars
  <1>6. CASE Copy
    <2>1. code' \in Nat /\ exit' \in Int
      BY <1>6 DEF Copy
    <2>4. power' \in {"halted", "halting", "running"} /\ starter' \in {"before", "session", "other"}
      BY <1>6 DEF Copy, Reached, Attempted
    <2>2. workdir' \subseteq {"dir", "archive"} \cup Agents
      BY <1>6 DEF Copy
    <2>3. pc' \in {"untar", "check", "leave"} /\ raising' \in BOOLEAN
      BY <1>6 DEF Copy, GoTo
    <2> QED
      BY <1>6, <2>1, <2>2, <2>3, <2>4 DEF Copy
  <1>7. CASE Untar
    BY <1>7 DEF Untar, GoTo, Reached, Attempted, callVars, qubeVars
  <1>8. CASE Check
    <2>1. CASE termination
      <3>1. pc' = "leave" /\ status' = "cancelled" /\ code' = 130
        BY <1>8, <2>1 DEF Check, GoTo
      <3>2. code' \in Nat
        BY <3>1
      <3> QED
        BY <1>0, <1>8, <3>1, <3>2 DEF Check, qubeVars
    <2>2. CASE ~termination
      BY <1>8, <2>2 DEF Check, GoTo, callVars, qubeVars
    <2> QED
      BY <2>1, <2>2
  <1>9. ASSUME NEW e \in EntryCodes \cup {NoAgentCode, ERR}, Entrypoint(e)
       PROVE  TypeOK'
    <2>1. e \in Int
      BY <1>9, EntryCodesInt
    <2>2. status' \in FinalStatus
      BY <1>0, <1>9, <2>1, EntryFacts DEF Entrypoint
    <2>3. code' \in Nat /\ exit' \in Int
      BY <1>9, <2>1, EntryFacts DEF Entrypoint
    <2>4. power' \in {"halted", "halting", "running"} /\ starter' \in {"before", "session", "other"}
      BY <1>9 DEF Entrypoint, EntryOutcome, Reached, Attempted
    <2> QED
      BY <1>9, <2>2, <2>3, <2>4 DEF Entrypoint, GoTo
  <1>10. CASE EntrypointRaises
    BY <1>10 DEF EntrypointRaises, GoTo, Attempted, Reached, callVars, qubeVars
  <1>11. CASE ReadLogs
    BY <1>11 DEF ReadLogs, GoTo, Attempted, Reached, callVars, qubeVars
  <1>12. CASE Leave
    <2>1. dones = <<>>
      BY <1>12 DEF Leave, DonesInv, Reporting, Ending
    <2>2. dones' \in Seq(FinalStatus) /\ Len(dones') <= 2
      <3>1. dones' = <<status>>
        BY <1>12, <2>1, Words DEF Leave, Say
      <3> QED
        BY <3>1, Words
    <2>3. pc' \in {"rm", "stop"}
      BY <1>12 DEF Leave, GoTo
    <2> QED
      BY <1>12, <2>2, <2>3 DEF Leave, callVars, qubeVars
  <1>13. CASE Rm
    BY <1>13 DEF Rm, GoTo, Attempted, Reached, RemovesFiles, Admin, callVars, qubeVars
  <1>14. CASE StopTest
    BY <1>14 DEF StopTest, GoTo, IsRunning, Finished, callVars, qubeVars
  <1>15. CASE ShutdownAndWait
    BY <1>15 DEF ShutdownAndWait, GoTo, IsRunning, Finished, callVars, qubeVars
  <1>16. CASE Connect
    BY <1>16 DEF Connect, GoTo, IsRunning, Finished, callVars, qubeVars
  <1>17. CASE Shutdown
    BY <1>17 DEF Shutdown, GoTo, IsRunning, Finished, callVars, qubeVars
  <1>18. CASE HandleException
    <2>1. dones = <<>> \/ \E word \in FinalStatus : dones = <<word>>
      BY <1>18 DEF HandleException, DonesInv
    <2>2. dones' \in Seq(FinalStatus) /\ Len(dones') <= 2
      <3>1. "error" \in FinalStatus /\ dones' = Append(dones, "error")
        BY <1>18, <1>0 DEF HandleException, Say
      <3>2. CASE dones = <<>>
        BY <3>1, <3>2, Words
      <3>3. CASE \E word \in FinalStatus : dones = <<word>>
        BY <3>1, <3>3, Words
      <3> QED
        BY <2>1, <3>2, <3>3
    <2>3. code' \in Nat /\ exit' \in Int
      BY <1>18 DEF HandleException
    <2> QED
      BY <1>0, <1>18, <2>2, <2>3 DEF HandleException, GoTo, callVars, qubeVars
  <1>19. CASE Sigint
    BY <1>19 DEF Sigint, callVars, qubeVars
  <1>20. CASE OtherStarts
    BY <1>20 DEF OtherStarts, callVars, qubeVars
  <1>21. CASE OtherStops
    BY <1>21 DEF OtherStops, callVars, qubeVars
  <1>22. CASE Halt
    BY <1>22 DEF Halt, Finished, callVars, qubeVars
  <1>23. CASE UNCHANGED vars
    BY <1>23 DEF vars, callVars, qubeVars
  <1> QED
    BY <1>1, <1>2, <1>3, <1>4, <1>5, <1>6, <1>7, <1>8, <1>9, <1>10, <1>11, <1>12,
       <1>13, <1>14, <1>15, <1>16, <1>17, <1>18, <1>19, <1>20, <1>21, <1>22, <1>23
    DEF Next, Session, Returned

\* DONE is put where DonesInv says.
LEMMA DonesStep ==
  ASSUME TypeOK, DonesInv, [Next]_vars
  PROVE  DonesInv'
  <1> USE DEF TypeOK, DonesInv, Reporting, Ending, FinalStatus
  <1>1. CASE CancelBeforeStart
    BY <1>1, Words DEF CancelBeforeStart, GoTo, Say, callVars, qubeVars
  <1>2. CASE Begin
    BY <1>2 DEF Begin, GoTo, callVars, qubeVars
  <1>3. CASE Enter
    BY <1>3 DEF Enter, GoTo, IsRunning, Admin, callVars, qubeVars
  <1>4. CASE FailToOpen
    BY <1>4 DEF FailToOpen, GoTo, callVars, qubeVars
  <1>5. CASE Mkdir
    BY <1>5 DEF Mkdir, GoTo, Reached, Attempted, callVars, qubeVars
  <1>6. CASE Copy
    BY <1>6 DEF Copy, GoTo, Reached, Attempted, callVars, qubeVars
  <1>7. CASE Untar
    BY <1>7 DEF Untar, GoTo, Reached, Attempted, callVars, qubeVars
  <1>8. CASE Check
    BY <1>8 DEF Check, GoTo, callVars, qubeVars
  <1>9. ASSUME NEW e \in EntryCodes \cup {NoAgentCode, ERR}, Entrypoint(e)
       PROVE  DonesInv'
    BY <1>9, EntryFacts, EntryCodesInt DEF Entrypoint, GoTo, EntryOutcome, Reached, Attempted, callVars, qubeVars
  <1>10. CASE EntrypointRaises
    BY <1>10 DEF EntrypointRaises, GoTo, Attempted, Reached, callVars, qubeVars
  <1>11. CASE ReadLogs
    BY <1>11 DEF ReadLogs, GoTo, Attempted, Reached, callVars, qubeVars
  <1>12. CASE Leave
    <2>1. /\ pc = "leave" /\ pc' \in {"rm", "stop"} /\ status' = status
          /\ dones' = Append(dones, status)
      BY <1>12 DEF Leave, GoTo, Say
    <2>2. dones = <<>> /\ status \in FinalStatus
      BY <2>1
    <2>3. dones' = <<status'>>
      BY <2>1, <2>2, Words
    <2>4. pc' \in Reporting /\ pc' # "raised"
      BY <2>1
    <2> QED
      BY <2>3, <2>4
  <1>13. CASE Rm
    BY <1>13 DEF Rm, GoTo, Attempted, Reached, RemovesFiles, Admin, callVars, qubeVars
  <1>14. CASE StopTest
    BY <1>14 DEF StopTest, GoTo, IsRunning, Finished, callVars, qubeVars
  <1>15. CASE ShutdownAndWait
    BY <1>15 DEF ShutdownAndWait, GoTo, IsRunning, Finished, callVars, qubeVars
  <1>16. CASE Connect
    BY <1>16 DEF Connect, GoTo, IsRunning, Finished, callVars, qubeVars
  <1>17. CASE Shutdown
    BY <1>17 DEF Shutdown, GoTo, IsRunning, Finished, callVars, qubeVars
  <1>18. CASE HandleException
    BY <1>18, Words DEF HandleException, GoTo, Say, callVars, qubeVars
  <1>19. CASE Sigint
    BY <1>19 DEF Sigint, callVars, qubeVars
  <1>20. CASE OtherStarts
    BY <1>20 DEF OtherStarts, callVars, qubeVars
  <1>21. CASE OtherStops
    BY <1>21 DEF OtherStops, callVars, qubeVars
  <1>22. CASE Halt
    BY <1>22 DEF Halt, Finished, callVars, qubeVars
  <1>23. CASE UNCHANGED vars
    BY <1>23 DEF vars, callVars, qubeVars
  <1> QED
    BY <1>1, <1>2, <1>3, <1>4, <1>5, <1>6, <1>7, <1>8, <1>9, <1>10, <1>11, <1>12,
       <1>13, <1>14, <1>15, <1>16, <1>17, <1>18, <1>19, <1>20, <1>21, <1>22, <1>23
    DEF Next, Session, Returned

\* The status keeps telling how far the call got.
LEMMA StatusStep ==
  ASSUME TypeOK, StatusInv, [Next]_vars
  PROVE  StatusInv'
  <1> USE ConnectionAssumption DEF TypeOK, StatusInv, Reporting, Ending, OK, ERR, SIGINT, ERR_VM_UNHANDLED
  <1>1. CASE CancelBeforeStart
    BY <1>1 DEF CancelBeforeStart, GoTo, Say, callVars, qubeVars
  <1>2. CASE Begin
    BY <1>2 DEF Begin, GoTo, callVars, qubeVars
  <1>3. CASE Enter
    BY <1>3 DEF Enter, GoTo, IsRunning, Admin, callVars, qubeVars
  <1>4. CASE FailToOpen
    BY <1>4 DEF FailToOpen, GoTo, callVars, qubeVars
  <1>5. CASE Mkdir
    BY <1>5 DEF Mkdir, GoTo, Reached, Attempted, callVars, qubeVars
  <1>6. CASE Copy
    BY <1>6 DEF Copy, GoTo, Reached, Attempted, callVars, qubeVars
  <1>7. CASE Untar
    BY <1>7 DEF Untar, GoTo, Reached, Attempted, callVars, qubeVars
  <1>8. CASE Check
    BY <1>8 DEF Check, GoTo, callVars, qubeVars
  <1>9. ASSUME NEW e \in EntryCodes \cup {NoAgentCode, ERR}, Entrypoint(e)
       PROVE  StatusInv'
    <2>1. /\ pc = "entry" /\ pc' = "logs" /\ exit' = e /\ ~raising'
          /\ status' = EntryStatus(e) /\ code' = MaxOf(code, EntryCode(e))
      BY <1>9 DEF Entrypoint, GoTo
    <2>2. e \in Int
      BY <1>9, EntryCodesInt
    <2>3. /\ status' # "cancelled" /\ (status' = "success" => exit' <= OK)
          /\ status' = "error" => e > OK /\ e <= code' /\ code' \in Nat
      BY ZenonT(60), <2>1, <2>2, EntryFacts
    <2> QED
      BY <2>1, <2>2, <2>3
  <1>10. CASE EntrypointRaises
    BY <1>10 DEF EntrypointRaises, GoTo, Attempted, Reached, callVars, qubeVars
  <1>11. CASE ReadLogs
    BY <1>11 DEF ReadLogs, GoTo, Attempted, Reached, callVars, qubeVars
  <1>12. CASE Leave
    BY <1>12 DEF Leave, GoTo, Say, RemovesFiles, Admin, callVars, qubeVars
  <1>13. CASE Rm
    BY <1>13 DEF Rm, GoTo, Attempted, Reached, RemovesFiles, Admin, callVars, qubeVars
  <1>14. CASE StopTest
    BY <1>14 DEF StopTest, GoTo, IsRunning, Finished, callVars, qubeVars
  <1>15. CASE ShutdownAndWait
    BY <1>15 DEF ShutdownAndWait, GoTo, IsRunning, Finished, callVars, qubeVars
  <1>16. CASE Connect
    BY <1>16 DEF Connect, GoTo, IsRunning, Finished, callVars, qubeVars
  <1>17. CASE Shutdown
    BY <1>17 DEF Shutdown, GoTo, IsRunning, Finished, callVars, qubeVars
  <1>18. CASE HandleException
    BY <1>18 DEF HandleException, GoTo, Say, callVars, qubeVars
  <1>19. CASE Sigint
    BY <1>19 DEF Sigint, callVars, qubeVars
  <1>20. CASE OtherStarts
    BY <1>20 DEF OtherStarts, callVars, qubeVars
  <1>21. CASE OtherStops
    BY <1>21 DEF OtherStops, callVars, qubeVars
  <1>22. CASE Halt
    BY <1>22 DEF Halt, Finished, callVars, qubeVars
  <1>23. CASE UNCHANGED vars
    BY <1>23 DEF vars, callVars, qubeVars
  <1> QED
    BY <1>1, <1>2, <1>3, <1>4, <1>5, <1>6, <1>7, <1>8, <1>9, <1>10, <1>11, <1>12,
       <1>13, <1>14, <1>15, <1>16, <1>17, <1>18, <1>19, <1>20, <1>21, <1>22, <1>23
    DEF Next, Session, Returned

\* What was uploaded and started is on record until it is removed and stopped.
LEMMA CleanupStep ==
  ASSUME TypeOK, CleanupInv, [Next]_vars
  PROVE  CleanupInv'
  <1> USE DEF TypeOK, CleanupInv, RemovesFiles, Admin, Ending, Agents
  <1>1. CASE CancelBeforeStart
    BY <1>1 DEF CancelBeforeStart, GoTo, Say, callVars, qubeVars
  <1>2. CASE Begin
    BY <1>2 DEF Begin, GoTo, callVars, qubeVars
  <1>3. CASE Enter
    BY <1>3 DEF Enter, GoTo, IsRunning, Admin, callVars, qubeVars
  <1>4. CASE FailToOpen
    BY <1>4 DEF FailToOpen, GoTo, callVars, qubeVars
  <1>5. CASE Mkdir
    BY <1>5 DEF Mkdir, GoTo, Reached, Attempted, callVars, qubeVars
  <1>6. CASE Copy
    BY <1>6 DEF Copy, GoTo, Reached, Attempted, callVars, qubeVars
  <1>7. CASE Untar
    BY <1>7 DEF Untar, GoTo, Reached, Attempted, callVars, qubeVars
  <1>8. CASE Check
    BY <1>8 DEF Check, GoTo, callVars, qubeVars
  <1>9. ASSUME NEW e \in EntryCodes \cup {NoAgentCode, ERR}, Entrypoint(e)
       PROVE  CleanupInv'
    BY <1>9, EntryFacts, EntryCodesInt DEF Entrypoint, GoTo, EntryOutcome, Reached, Attempted, callVars, qubeVars
  <1>10. CASE EntrypointRaises
    BY <1>10 DEF EntrypointRaises, GoTo, Attempted, Reached, callVars, qubeVars
  <1>11. CASE ReadLogs
    BY <1>11 DEF ReadLogs, GoTo, Attempted, Reached, callVars, qubeVars
  <1>12. CASE Leave
    BY <1>12 DEF Leave, GoTo, Say, RemovesFiles, Admin, callVars, qubeVars
  <1>13. CASE Rm
    BY <1>13 DEF Rm, GoTo, Attempted, Reached, RemovesFiles, Admin, callVars, qubeVars
  <1>14. CASE StopTest
    BY <1>14 DEF StopTest, GoTo, IsRunning, Finished, callVars, qubeVars
  <1>15. CASE ShutdownAndWait
    BY <1>15 DEF ShutdownAndWait, GoTo, IsRunning, Finished, callVars, qubeVars
  <1>16. CASE Connect
    BY <1>16 DEF Connect, GoTo, IsRunning, Finished, callVars, qubeVars
  <1>17. CASE Shutdown
    BY <1>17 DEF Shutdown, GoTo, IsRunning, Finished, callVars, qubeVars
  <1>18. CASE HandleException
    BY <1>18 DEF HandleException, GoTo, Say, callVars, qubeVars
  <1>19. CASE Sigint
    BY <1>19 DEF Sigint, callVars, qubeVars
  <1>20. CASE OtherStarts
    BY <1>20 DEF OtherStarts, callVars, qubeVars
  <1>21. CASE OtherStops
    BY <1>21 DEF OtherStops, callVars, qubeVars
  <1>22. CASE Halt
    BY <1>22 DEF Halt, Finished, callVars, qubeVars
  <1>23. CASE UNCHANGED vars
    BY <1>23 DEF vars, callVars, qubeVars
  <1> QED
    BY <1>1, <1>2, <1>3, <1>4, <1>5, <1>6, <1>7, <1>8, <1>9, <1>10, <1>11, <1>12,
       <1>13, <1>14, <1>15, <1>16, <1>17, <1>18, <1>19, <1>20, <1>21, <1>22, <1>23
    DEF Next, Session, Returned

\* A call that returns has said what it returns.
LEMMA LastWordStep ==
  ASSUME TypeOK, DonesInv, StatusInv, LastWordAgrees, [Next]_vars
  PROVE  LastWordAgrees'
  <1>1. CASE pc' # "returned"
    BY <1>1 DEF LastWordAgrees
  <1>2. CASE pc = "returned" /\ UNCHANGED callVars
    BY <1>2 DEF LastWordAgrees, callVars
  <1>3. CASE pc \in Reporting /\ ~raising /\ UNCHANGED callVars
    <2>1. status \in FinalStatus /\ dones' = <<status>>
      BY <1>3 DEF TypeOK, DonesInv, callVars
    <2>2. Len(dones') = 1 /\ dones'[1] = status
      BY <2>1, Words
    <2>3. /\ status = "error" => code # OK
          /\ status = "cancelled" => code = SIGINT /\ exit = OK
          /\ status = "success" => exit <= OK
      BY <1>3 DEF StatusInv
    <2> QED
      BY <1>3, <2>2, <2>3 DEF LastWordAgrees, callVars
  <1>4. CASE CancelBeforeStart
    <2>1. dones = <<>> /\ exit = OK
      BY <1>4 DEF CancelBeforeStart, DonesInv, StatusInv, Reporting, Ending
    <2>2. Len(dones') = 1 /\ dones'[1] = "cancelled"
      BY <1>4, <2>1, Words DEF CancelBeforeStart, Say, FinalStatus
    <2> QED
      BY <1>4, <2>1, <2>2 DEF CancelBeforeStart, LastWordAgrees, SIGINT
  <1>5. CASE HandleException
    <2>1. dones = <<>> \/ \E word \in FinalStatus : dones = <<word>>
      BY <1>5 DEF HandleException, DonesInv
    <2>2. Len(dones') \in {1, 2} /\ dones'[Len(dones')] = "error"
      <3>1. CASE dones = <<>>
        BY <1>5, <3>1, Words DEF HandleException, Say, FinalStatus
      <3>2. CASE \E word \in FinalStatus : dones = <<word>>
        BY <1>5, <3>2, Words DEF HandleException, Say, FinalStatus
      <3> QED
        BY <2>1, <3>1, <3>2
    <2> QED
      BY <1>5, <2>2 DEF HandleException, LastWordAgrees, OK, ERR_VM_UNHANDLED
  <1>6. \/ pc' # "returned"
        \/ pc = "returned" /\ UNCHANGED callVars
        \/ pc \in Reporting /\ ~raising /\ UNCHANGED callVars
        \/ CancelBeforeStart
        \/ HandleException
    BY DEF Next, Session, Returned, Begin, Enter, FailToOpen, Mkdir, Copy, Untar, Check, Entrypoint,
           EntrypointRaises, ReadLogs, Leave, Rm, StopTest, ShutdownAndWait, Connect, Shutdown,
           Sigint, OtherStarts, OtherStops, Halt, GoTo, Finished, Reporting, vars, callVars
  <1> QED
    BY <1>1, <1>2, <1>3, <1>4, <1>5, <1>6

\* SessionInv is invariant.
THEOREM SessionInvHolds == Spec => []SessionInv
  <1>1. SessionInv /\ [Next]_vars => SessionInv'
    BY TypeStep, DonesStep, StatusStep, CleanupStep, LastWordStep DEF SessionInv
  <1> QED
    BY <1>1, SessionInit, PTL DEF Spec

\* A call that returns has told the status queue what it returns, for any exit
\* code of the agent and any user of the qube.
THEOREM LastWordsAgree == Spec => []LastWordAgrees
  <1>1. SessionInv => LastWordAgrees
    BY DEF SessionInv
  <1> QED
    BY <1>1, SessionInvHolds, PTL

\* A qube that the call started is not left running, unless its shutdown failed.
THEOREM PowerIsRestored == Spec => []PowerRestored
  <1>1. SessionInv => PowerRestored
    BY DEF SessionInv, CleanupInv, PowerRestored, Ending
  <1> QED
    BY <1>1, SessionInvHolds, PTL

\* The uploaded agent is removed, unless rm failed.
THEOREM UploadIsRemoved == Spec => []UploadRemoved
  <1>1. SessionInv => UploadRemoved
    BY DEF SessionInv, CleanupInv, UploadRemoved
  <1> QED
    BY <1>1, SessionInvHolds, PTL

\* A halt that the call waits for has not happened: the call subscribes to events
\* before it looks at the power state, and a halt in between is seen by the look.
LEMMA HaltStep ==
  ASSUME TypeOK, HaltInv, [Next]_vars
  PROVE  HaltInv'
  <1> USE DEF TypeOK, HaltInv, GoTo, IsRunning, Finished, callVars, qubeVars
  <1>1. CASE ShutdownAndWait
    BY <1>1 DEF ShutdownAndWait
  <1>2. CASE Connect
    BY <1>2 DEF Connect
  <1>3. CASE OtherStarts
    BY <1>3 DEF OtherStarts
  <1>4. CASE OtherStops
    BY <1>4 DEF OtherStops
  <1>5. CASE Halt
    BY <1>5 DEF Halt
  <1>6. CASE Sigint \/ UNCHANGED vars
    BY <1>6 DEF Sigint, vars
  <1>7. CASE CancelBeforeStart \/ Begin \/ Enter \/ FailToOpen \/ Check
    BY <1>7 DEF CancelBeforeStart, Begin, Enter, FailToOpen, Check
  <1>8. CASE Mkdir \/ Copy \/ Untar \/ EntrypointRaises \/ ReadLogs
    BY <1>8 DEF Mkdir, Copy, Untar, EntrypointRaises, ReadLogs
  <1>9. CASE \E e \in EntryCodes \cup {NoAgentCode, ERR} : Entrypoint(e)
    BY <1>9 DEF Entrypoint
  <1>10. CASE Leave \/ Rm \/ StopTest \/ Shutdown \/ HandleException
    BY <1>10 DEF Leave, Rm, StopTest, Shutdown, HandleException
  <1> QED
    BY <1>1, <1>2, <1>3, <1>4, <1>5, <1>6, <1>7, <1>8, <1>9, <1>10 DEF Next, Session, Returned

\* No call waits for a halt it has missed, whoever stops and starts the qube, and
\* whenever: what it waits for is under way, unless another user started the qube.
THEOREM NobodyWaitsInVain == Spec => []NoWaitInVain
  <1>1. Init => HaltInv
    BY DEF Init, HaltInv
  <1>2. TypeOK /\ HaltInv /\ [Next]_vars => HaltInv'
    BY HaltStep
  <1>3. TypeOK /\ HaltInv => NoWaitInVain
    BY DEF TypeOK, HaltInv, NoWaitInVain
  <1>4. SessionInv => TypeOK
    BY DEF SessionInv
  <1> QED
    BY <1>1, <1>2, <1>3, <1>4, SessionInvHolds, PTL DEF Spec

--------------------------------------------------------------------------------
\* The call begins where the abstract task does.
LEMMA TaskInit == Init => Task!Init
  BY DEF Init, Task!Init, Place, Task!OK, OK

\* Every step of the call, of the qube and of its users is a step of the abstract
\* task or leaves it alone.  The invariant is needed where the call is cancelled
\* and where the agent runs: no agent ran before.
LEMMA TaskStep ==
  ASSUME TypeOK, StatusInv, [Next]_vars
  PROVE  [Task!Next]_(Task!vars)
  <1> USE DEF vars, callVars, qubeVars, Place, GoTo, Finished, Task!vars
  <1> DEFINE told == <<status, code, exit, termination>>
  <1>1. CASE CancelBeforeStart
    <2>1. Task!Skip
      BY <1>1 DEF CancelBeforeStart, StatusInv, Task!Skip, Task!Cancelled, SIGINT,
                 Task!SIGINT, OK, Task!OK
    <2> QED BY <2>1 DEF Task!Next
  <1>2. CASE Begin
    <2>1. Task!Open
      BY <1>2 DEF Begin, Task!Open
    <2> QED BY <2>1 DEF Task!Next
  <1>3. CASE Enter
    BY <1>3 DEF Enter
  <1>4. CASE FailToOpen
    <2>1. Task!Fail
      BY <1>4 DEF FailToOpen, Task!Fail
    <2> QED BY <2>1 DEF Task!Next
  <1>5. CASE Mkdir \/ Copy \/ Untar
    <2>1. Place = "open" /\ Place' = "open" /\ exit = OK
      BY <1>5 DEF Mkdir, Copy, Untar, StatusInv
    <2>2. UNCHANGED <<status, exit, termination>>
      BY <1>5 DEF Mkdir, Copy, Untar
    <2>3. UNCHANGED code \/ code' \in FailCodes \cup {ERR}
      BY <1>5 DEF Mkdir, Copy, Untar
    <2>4. CASE code' \in FailCodes \cup {ERR}
      <3>1. Task!Transfer(code')
        BY <2>1, <2>2 DEF Task!Transfer, OK, Task!OK
      <3> QED BY <2>4, <3>1 DEF Task!Next
    <2> QED BY <2>1, <2>2, <2>3, <2>4
  <1>6. CASE Check
    <2>1. CASE termination
      <3>1. Task!Cancel
        BY <1>6, <2>1 DEF Check, StatusInv, Task!Cancel, Task!Cancelled, SIGINT,
                       Task!SIGINT, OK, Task!OK
      <3> QED BY <3>1 DEF Task!Next
    <2>2. CASE ~termination
      BY <1>6, <2>2 DEF Check
    <2> QED BY <2>1, <2>2
  <1>7. ASSUME NEW e \in EntryCodes \cup {NoAgentCode, ERR}, Entrypoint(e)
        PROVE  [Task!Next]_(Task!vars)
    <2>1. Task!Run(e)
      BY <1>7 DEF Entrypoint, StatusInv, Task!Run, OK, Task!OK, EntryStatus, EntryCode,
                 MaxOf, Task!EntryStatus, Task!EntryCode, Task!MaxOf, OK_NO_UPDATES,
                 Task!OK_NO_UPDATES
    <2> QED BY <2>1 DEF Task!Next
  <1>8. CASE EntrypointRaises \/ ReadLogs
    BY <1>8 DEF EntrypointRaises, ReadLogs
  <1>9. CASE Leave
    <2>1. Task!Report
      BY <1>9 DEF Leave, Task!Report
    <2> QED BY <2>1 DEF Task!Next
  <1>10. CASE Rm \/ StopTest \/ ShutdownAndWait \/ Connect \/ Shutdown
    <2>1. Place = "reported" /\ Place' \in {"reported", "settled", "failed"} /\ UNCHANGED told
      BY <1>10 DEF Rm, StopTest, ShutdownAndWait, Connect, Shutdown
    <2> QED BY <2>1 DEF Task!Next, Task!Settle, Task!Fail
  <1>11. CASE HandleException
    <2>1. Task!SettleFailed
      BY <1>11 DEF HandleException, Task!SettleFailed, Task!ERR_VM_UNHANDLED,
                  ERR_VM_UNHANDLED
    <2> QED BY <2>1 DEF Task!Next
  <1>12. CASE Sigint
    <2>1. Task!RequestStop
      BY <1>12 DEF Sigint, Task!RequestStop
    <2> QED BY <2>1 DEF Task!Next
  <1>13. CASE OtherStarts \/ OtherStops
    BY <1>13 DEF OtherStarts, OtherStops
  <1>14. CASE Halt
    <2>1. UNCHANGED told /\ (UNCHANGED pc \/ (pc = "wait" /\ pc' = Finished))
      BY <1>14 DEF Halt
    <2>2. UNCHANGED Place \/ (Place = "reported" /\ Place' \in {"settled", "failed"})
      BY <2>1
    <2> QED BY <2>1, <2>2 DEF Task!Next, Task!Settle, Task!Fail
  <1>15. CASE UNCHANGED vars
    BY <1>15
  <1> QED
    BY <1>1, <1>2, <1>3, <1>4, <1>5, <1>6, <1>7, <1>8, <1>9, <1>10, <1>11, <1>12, <1>13,
       <1>14, <1>15 DEF Next, Session, Returned

\* The detailed call implements the abstract task that the batch relies on, for
\* any qube, whatever its users do, wherever a command fails.
THEOREM ImplementsTask == Spec => TaskSpec
  <1>1. SessionInv /\ [Next]_vars => [Task!Next]_(Task!vars)
    BY TaskStep DEF SessionInv
  <1> QED
    BY TaskInit, <1>1, SessionInvHolds, PTL DEF Spec, TaskSpec, Task!Spec
================================================================================

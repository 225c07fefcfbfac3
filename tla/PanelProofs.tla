---------------------------- MODULE PanelProofs ----------------------------
(***************************************************************************)
(* Theorems about the panel: its client, for any threads and bounds, and   *)
(* the files it stages, for any files and bounds.                          *)
(***************************************************************************)
EXTENDS GmClient, Attachments, WellFoundedInduction, TLAPS

-----------------------------------------------------------------------------
(* The client.                                                             *)

\* The client's end of a connection is open as long as the daemon's is there, and
\* callbacks go with the client's end.
ConnectionInv ==
    /\ peer => sock = "open" /\ callbacks \subseteq inflight
    /\ sock # "open" => callbacks = {}

\* No step of the client, the daemon or systemd leaves a callback behind.
LEMMA ConnectionStep == ConnectionInv /\ [ClientNext]_clientVars => ConnectionInv'
<1> SUFFICES ASSUME ConnectionInv, [ClientNext]_clientVars PROVE ConnectionInv'
  OBVIOUS
<1> USE DEF ConnectionInv, connVars, requestVars, viewVars
<1>1. CASE DaemonStops \/ DaemonStarts \/ StartExits
  BY <1>1 DEF DaemonStops, DaemonStarts, StartExits
<1>2. CASE SocketOpens \/ SocketFails \/ SocketCloses
  BY <1>2 DEF SocketOpens, SocketFails, SocketCloses, Surviving,
              OnError
<1>3. CASE TimerFires \/ RetryNow \/ StatusArrives
  BY <1>3 DEF TimerFires, RetryNow, StatusArrives
<1>4. ASSUME NEW c, LoadMessages(c), UNCHANGED connVars PROVE ConnectionInv'
  BY <1>4 DEF LoadMessages
<1>5. CASE Refresh \/ Deselect
  BY <1>4, <1>5 DEF Refresh, Deselect
<1>6. ASSUME NEW c \in Convs, SelectThread(c) PROVE ConnectionInv'
  BY <1>4, <1>6 DEF SelectThread
<1>7. ASSUME NEW i \in Ids, Answer(i) PROVE ConnectionInv'
  BY <1>7 DEF Answer
<1>8. CASE UNCHANGED clientVars
  BY <1>8 DEF clientVars
<1> QED
  BY <1>1, <1>2, <1>3, <1>5, <1>6, <1>7, <1>8 DEF ClientNext

\* While the daemon's end is there, it is going to answer every call that has a callback:
\* however often the socket was rebuilt, no callback outlives its connection
\* (GmClient.qml:98-101).
THEOREM PendingIsAnsweredAlways == ClientSpec => []PendingIsAnswered
<1>1. ClientInit => ConnectionInv
  BY DEF ClientInit, ConnectionInv
<1>2. ConnectionInv => PendingIsAnswered
  BY DEF ConnectionInv, PendingIsAnswered
<1> QED
  BY <1>1, <1>2, ConnectionStep, PTL DEF ClientSpec

\* Only a selection and an answer touch what is shown, and an answer only for the thread
\* that is selected when it comes.
LEMMA ShownStep ==
    ShownIsSelected /\ [ClientNext]_clientVars => ShownIsSelected'
<1> SUFFICES ASSUME ShownIsSelected, [ClientNext]_clientVars
             PROVE  ShownIsSelected'
  OBVIOUS
<1> USE DEF ShownIsSelected, connVars, requestVars, viewVars
<1>1. CASE DaemonStops \/ DaemonStarts \/ StartExits
  BY <1>1 DEF DaemonStops, DaemonStarts, StartExits
<1>2. CASE SocketOpens \/ SocketFails \/ SocketCloses
  BY <1>2 DEF SocketOpens, SocketFails, SocketCloses
<1>3. CASE TimerFires \/ RetryNow \/ StatusArrives
  BY <1>3 DEF TimerFires, RetryNow, StatusArrives
<1>4. CASE Refresh \/ Deselect
  BY <1>4 DEF Refresh, Deselect
<1>5. ASSUME NEW c \in Convs, SelectThread(c) PROVE ShownIsSelected'
  BY <1>5 DEF SelectThread
<1>6. ASSUME NEW i \in Ids, Answer(i) PROVE ShownIsSelected'
  BY <1>6 DEF Answer, IsWanted
<1>7. CASE UNCHANGED clientVars
  BY <1>7 DEF clientVars
<1> QED
  BY <1>1, <1>2, <1>3, <1>4, <1>5, <1>6, <1>7 DEF ClientNext

\* What is shown is the selected thread's, for any number of threads and of calls that
\* overtake each other (Panel.qml:213-228).
THEOREM ShownIsSelectedAlways == ClientSpec => []ShownIsSelected
<1>1. ClientInit => ShownIsSelected
  BY DEF ClientInit, ShownIsSelected
<1> QED
  BY <1>1, ShownStep, PTL DEF ClientSpec

\* The client's types in two parts: its flags and the state of the socket, and its counts
\* and calls.
FlagTypes ==
    /\ daemon \in {"up", "down"} /\ autostart \in BOOLEAN
    /\ sock \in {"connecting", "open", "failed"} /\ peer \in BOOLEAN
    /\ timer \in BOOLEAN /\ tried \in BOOLEAN /\ starting \in BOOLEAN /\ status \in BOOLEAN

CallTypes ==
    /\ level \in 0..TopLevel /\ nextId \in 1..(MaxCalls + 1)
    /\ callbacks \subseteq Ids /\ inflight \subseteq Ids /\ waiting \subseteq Ids
    /\ target \in [Ids -> Convs \cup {NoThread}]
    /\ selected \in Convs \cup {NoThread} /\ shown \in Convs \cup {NoThread}
    /\ stops \in 0..MaxStops /\ fails \in 0..MaxFails

\* No step spoils a flag.
LEMMA FlagTypesStep == FlagTypes /\ [ClientNext]_clientVars => FlagTypes'
<1> SUFFICES ASSUME FlagTypes, [ClientNext]_clientVars PROVE FlagTypes'
  OBVIOUS
<1> USE DEF FlagTypes, connVars
<1>1. CASE DaemonStops \/ DaemonStarts \/ StartExits
  BY <1>1 DEF DaemonStops, DaemonStarts, StartExits
<1>2. CASE SocketOpens \/ SocketFails \/ SocketCloses
  BY <1>2 DEF SocketOpens, SocketFails, SocketCloses, OnError
<1>3. CASE TimerFires \/ RetryNow \/ StatusArrives
  BY <1>3 DEF TimerFires, RetryNow, StatusArrives, Repeats, TriedAtTop
<1>4. CASE Refresh \/ Deselect
  BY <1>4 DEF Refresh, Deselect
<1>5. ASSUME NEW c \in Convs, SelectThread(c) PROVE FlagTypes'
  BY <1>5 DEF SelectThread
<1>6. ASSUME NEW i \in Ids, Answer(i) PROVE FlagTypes'
  BY <1>6 DEF Answer
<1>7. CASE UNCHANGED clientVars
  BY <1>7 DEF clientVars
<1> QED
  BY <1>1, <1>2, <1>3, <1>4, <1>5, <1>6, <1>7 DEF ClientNext

\* No step spoils a count or a call: ids are given out up to the bound, and the interval is
\* doubled up to the top.
LEMMA CallTypesStep == CallTypes /\ [ClientNext]_clientVars => CallTypes'
<1> SUFFICES ASSUME CallTypes, [ClientNext]_clientVars PROVE CallTypes'
  OBVIOUS
<1>1. TopLevel \in Nat /\ MaxStops \in Nat /\ MaxFails \in Nat /\ MaxCalls \in Nat
  BY ClientBoundsAssumption
<1> USE <1>1 DEF CallTypes, connVars, requestVars, viewVars
<1>2. CASE DaemonStops \/ DaemonStarts \/ StartExits
  BY <1>2 DEF DaemonStops, DaemonStarts, StartExits
<1>3. CASE SocketOpens \/ SocketFails \/ SocketCloses
  BY <1>3 DEF SocketOpens, SocketFails, SocketCloses, Surviving
<1>4. CASE TimerFires \/ RetryNow \/ StatusArrives
  BY <1>4 DEF TimerFires, RetryNow, StatusArrives
<1>5. ASSUME NEW c \in Convs, LoadMessages(c), selected' \in Convs \cup {NoThread},
             shown' \in Convs \cup {NoThread}, UNCHANGED <<level, stops, fails>>
      PROVE  CallTypes'
  <2>1. CASE nextId <= MaxCalls
    <3>1. nextId \in Ids /\ nextId + 1 \in 1..(MaxCalls + 1)
      BY <2>1 DEF Ids
    <3> QED
      BY <1>5, <3>1 DEF LoadMessages
  <2>2. CASE UNCHANGED requestVars
    BY <1>5, <2>2
  <2> QED
    BY <1>5, <2>1, <2>2 DEF LoadMessages
<1>6. CASE Refresh \/ Deselect
  BY <1>5, <1>6 DEF Refresh, Deselect
<1>7. ASSUME NEW c \in Convs, SelectThread(c) PROVE CallTypes'
  BY <1>5, <1>7 DEF SelectThread
<1>8. ASSUME NEW i \in Ids, Answer(i) PROVE CallTypes'
  BY <1>8 DEF Answer
<1>9. CASE UNCHANGED clientVars
  BY <1>9 DEF clientVars
<1> QED
  BY <1>2, <1>3, <1>4, <1>6, <1>7, <1>8, <1>9 DEF ClientNext

\* Type correctness of the client, with the bounds on its interval and its ids.
THEOREM ClientTypes == ClientSpec => []ClientTypeOK
<1>1. ClientInit => FlagTypes
  BY DEF ClientInit, FlagTypes
<1>2. ClientInit => CallTypes
  BY ClientBoundsAssumption DEF ClientInit, CallTypes
<1>3. FlagTypes /\ CallTypes => ClientTypeOK
  BY DEF FlagTypes, CallTypes, ClientTypeOK
<1> QED
  BY <1>1, <1>2, <1>3, FlagTypesStep, CallTypesStep, PTL DEF ClientSpec

-----------------------------------------------------------------------------
(* What the panel holds on to.                                             *)

\* A new name is one of those that are left: the smallest, so there is one.
LEMMA FreshIsNew ==
    ASSUME NEW names \in SUBSET Nat, names \ used # {}
    PROVE  Fresh(names) \in names \ used
<1>1. PICK f \in names \ used : \A g \in names \ used : ~(<<g, f>> \in OpToRel(<, Nat))
  BY NatLessThanWellFounded, WFMin
<1>2. \A g \in names \ used : ~(g < f)
  BY <1>1 DEF OpToRel
<1>3. \A g \in names \ used : f <= g
  BY <1>2
<1> QED
  BY <1>3 DEF Fresh

\* The parts of the type invariant: files and the names they have ...
FilesOK ==
    /\ disk \subseteq Files /\ used \subseteq Captures /\ left \subseteq Captures
    /\ lost \subseteq Captures \cup Gifs
    /\ discards \subseteq Files
    /\ pending \in Files \cup {None} /\ sendFile \in Files \cup {None}
    /\ voicePath \in Voices \cup {None} /\ procFile \in Voices \cup {None}
    /\ queued \in Voices \cup {None} /\ shot \in Photos \cup {None}
    /\ countdown => Photos \ used # {}

\* ... where the processes and the calls are ...
PlacesOK ==
    /\ proc \in {"off", "running", "quitting", "killed"}
    /\ sendAt \in {"none", "read", "upload", "sent", "ok", "failed"}
    /\ acts \in 0..MaxActs /\ drops \in 0..MaxDrops

\* ... and the flags.
FlagsOK ==
    /\ fromCamera \in BOOLEAN /\ isVoice \in BOOLEAN
    /\ recording \in BOOLEAN /\ keep \in BOOLEAN /\ longEnough \in BOOLEAN
    /\ fallback \in BOOLEAN /\ cameraOpen \in BOOLEAN /\ countdown \in BOOLEAN
    /\ sending \in BOOLEAN /\ heard \in BOOLEAN
    /\ picking \in BOOLEAN /\ fetching \in BOOLEAN /\ up \in BOOLEAN

\* Staging, discarding and sending keep to the files, and a countdown that runs keeps a
\* name to take.
LEMMA FilesStep == FilesOK /\ [Next]_vars => FilesOK'
<1> SUFFICES ASSUME FilesOK, [Next]_vars PROVE FilesOK'
  OBVIOUS
<1> USE DEF FilesOK, Own, diskVars, stageVars, voiceVars, camVars, sendVars, callVars
<1>0. Captures \subseteq Files /\ Voices \subseteq Captures /\ Photos \subseteq Captures
      /\ UserFiles \subseteq Files /\ Gifs \subseteq Files
  BY DEF Captures, Files
<1>1. CASE CancelAttachment
  BY <1>0, <1>1 DEF CancelAttachment, Discard, Discardable
<1>2. CASE SelectConversation \/ AttachFromDisk \/ PickImage \/ ChooseGif \/ GifFetch
  BY <1>0, <1>2 DEF SelectConversation, AttachFromDisk, PickImage, ChooseGif, GifFetch, Stage
<1>3. CASE StartRecording
  <2> DEFINE f == Fresh(Voices)
  <2>1. f \in Voices \ used
    BY <1>0, <1>3, FreshIsNew, NamesAssumption DEF StartRecording, Opens
  <2> HIDE DEF f
  <2>2. Photos \ used' = Photos \ used
    BY <1>3, <2>1, NamesAssumption DEF StartRecording, f, Opens
  <2> QED
    BY <1>0, <1>3, <2>1, <2>2 DEF StartRecording, DropPending, Discard, Discardable, f, Opens
<1>4. CASE StopRecording
  BY <1>4 DEF StopRecording, Stop, Terminate
<1>5. CASE FallbackFires
  BY <1>5 DEF FallbackFires, Terminate
<1>6. CASE VoiceExits
  BY <1>0, <1>6 DEF VoiceExits, VoiceEnds, Opens
<1>7. CASE OpenCamera
  BY <1>0, <1>7 DEF OpenCamera, DropPending, Discard, Discardable, Stop, Terminate
<1>8. CASE CloseCamera \/ StartCountdown \/ CaptureExits
  BY <1>0, <1>8 DEF CloseCamera, StartCountdown, CaptureExits, Stage
<1>9. CASE RunCapture
  <2> DEFINE f == Fresh(Photos)
  <2>1. f \in Photos \ used
    BY <1>0, <1>9, FreshIsNew, NamesAssumption DEF RunCapture
  <2> HIDE DEF f
  <2> QED
    BY <1>0, <1>9, <2>1 DEF RunCapture, f
<1>10. CASE SendAttachment \/ SendMedia \/ SendReturns
  BY <1>10 DEF SendAttachment, SendMedia, SendReturns, Deleted
<1>11. CASE PruneCaches
  BY <1>11 DEF PruneCaches, IsOwnCapture
<1>12. ASSUME NEW f \in Files, DiscardCapture(f) PROVE FilesOK'
  BY <1>12 DEF DiscardCapture, Deleted
<1>13. CASE Disconnect \/ Reconnect
  BY <1>13 DEF Disconnect, Reconnect
<1>14. CASE UNCHANGED vars
  BY <1>14 DEF vars
<1> QED
  BY <1>1, <1>2, <1>3, <1>4, <1>5, <1>6, <1>7, <1>8, <1>9, <1>10, <1>11, <1>12,
     <1>13, <1>14 DEF Next

\* The bounds are kept, and a process and a call go through their stages.
LEMMA PlacesStep == PlacesOK /\ [Next]_vars => PlacesOK'
<1> SUFFICES ASSUME PlacesOK, [Next]_vars PROVE PlacesOK'
  OBVIOUS
<1> USE AttachmentBoundsAssumption
    DEF PlacesOK, Acts, diskVars, stageVars, voiceVars, camVars, sendVars, callVars
<1>1. CASE CancelAttachment \/ SelectConversation \/ AttachFromDisk \/ PickImage \/ ChooseGif
           \/ GifFetch
  BY <1>1 DEF CancelAttachment, SelectConversation, AttachFromDisk, PickImage, ChooseGif, GifFetch
<1>2. CASE StartRecording \/ StopRecording \/ FallbackFires \/ VoiceExits
  BY <1>2 DEF StartRecording, StopRecording, FallbackFires, VoiceExits, VoiceEnds, Stop, Terminate,
              Opens
<1>3. CASE OpenCamera \/ CloseCamera \/ StartCountdown \/ RunCapture \/ CaptureExits
  BY <1>3 DEF OpenCamera, CloseCamera, StartCountdown, RunCapture, CaptureExits, Stop, Terminate
<1>4. CASE SendAttachment \/ SendMedia \/ SendReturns
  BY <1>4 DEF SendAttachment, SendMedia, SendReturns
<1>5. CASE PruneCaches \/ (\E f \in Files : DiscardCapture(f))
  BY <1>5 DEF PruneCaches, DiscardCapture
<1>6. CASE Disconnect \/ Reconnect
  BY <1>6 DEF Disconnect, Reconnect
<1>7. CASE UNCHANGED vars
  BY <1>7 DEF vars
<1> QED
  BY <1>1, <1>2, <1>3, <1>4, <1>5, <1>6, <1>7 DEF Next

\* The flags stay flags.
LEMMA FlagsStep == FlagsOK /\ [Next]_vars => FlagsOK'
<1> SUFFICES ASSUME FlagsOK, [Next]_vars PROVE FlagsOK'
  OBVIOUS
<1> USE DEF FlagsOK, diskVars, stageVars, voiceVars, camVars, sendVars, callVars
<1>1. CASE CancelAttachment
  BY <1>1 DEF CancelAttachment, Discard
<1>2. CASE SelectConversation
  BY <1>2 DEF SelectConversation
<1>3. CASE AttachFromDisk
  BY <1>3 DEF AttachFromDisk
<1>4. CASE PickImage
  BY <1>4 DEF PickImage
<1>5. CASE ChooseGif
  BY <1>5 DEF ChooseGif
<1>6. CASE GifFetch
  BY <1>6 DEF GifFetch
<1>7. CASE StartRecording
  BY <1>7 DEF StartRecording, DropPending, Discard, Opens
<1>8. CASE StopRecording
  BY <1>8 DEF StopRecording, Stop, StartsFallback, Terminate
<1>9. CASE FallbackFires
  BY <1>9 DEF FallbackFires, Terminate
<1>10. CASE VoiceExits
  BY <1>10 DEF VoiceExits, VoiceEnds, Opens
<1>11. CASE OpenCamera
  BY <1>11 DEF OpenCamera, DropPending, Discard, Stop, StartsFallback, Terminate
<1>12. CASE CloseCamera
  BY <1>12 DEF CloseCamera
<1>13. CASE StartCountdown
  BY <1>13 DEF StartCountdown
<1>14. CASE RunCapture
  BY <1>14 DEF RunCapture
<1>15. CASE CaptureExits
  BY <1>15 DEF CaptureExits
<1>16. CASE SendAttachment
  BY <1>16 DEF SendAttachment
<1>17. CASE SendMedia
  BY <1>17 DEF SendMedia
<1>18. CASE SendReturns
  <2>1. CASE ~heard
    BY <1>18, <2>1 DEF SendReturns
  <2>2. CASE heard /\ sendAt = "ok"
    BY <1>18, <2>2 DEF SendReturns
  <2>3. CASE heard /\ sendAt # "ok"
    BY <1>18, <2>3 DEF SendReturns
  <2> QED
    BY <2>1, <2>2, <2>3
<1>19. CASE PruneCaches
  BY <1>19 DEF PruneCaches
<1>20. CASE Disconnect
  BY <1>20 DEF Disconnect
<1>21. CASE Reconnect
  BY <1>21 DEF Reconnect
<1>22. CASE \E f \in Files : DiscardCapture(f)
  BY <1>22 DEF DiscardCapture
<1>23. CASE UNCHANGED vars
  BY <1>23 DEF vars
<1> QED
  BY <1>1, <1>2, <1>3, <1>4, <1>5, <1>6, <1>7, <1>8, <1>9, <1>10, <1>11, <1>12,
     <1>13, <1>14, <1>15, <1>16, <1>17, <1>18, <1>19, <1>20, <1>21, <1>22, <1>23 DEF Next

\* Every file that is named anywhere is one that was given that kind of name.
THEOREM TypeOKAlways == Spec => []TypeOK
<1>1. Init => FilesOK
  BY DEF Init, FilesOK, Files
<1>2. Init => PlacesOK
  BY AttachmentBoundsAssumption DEF Init, PlacesOK
<1>3. Init => FlagsOK
  BY Zenon DEF Init, FlagsOK
<1>4. FilesOK /\ PlacesOK /\ FlagsOK => TypeOK
  BY Zenon DEF FilesOK, PlacesOK, FlagsOK, TypeOK
<1> QED
  BY <1>1, <1>2, <1>3, <1>4, FilesStep, PlacesStep, FlagsStep, PTL DEF Spec

-----------------------------------------------------------------------------
(* Every capture is accounted for.                                         *)

\* A capture that is staged is known to be one, by a flag or because the panel let go
\* of it; only a process that runs writes a file.
FlagInv ==
    /\ pending \in Captures => fromCamera \/ isVoice \/ pending \in left
    /\ proc = "off" => procFile = None

\* The file of a photo or a recording that is still to come is nobody's yet, and what is
\* staged, sent or recorded has used up its name.
NamesInv ==
    /\ {queued, shot} \cap {pending, sendFile} \subseteq {None}
    /\ Own({pending, sendFile, voicePath, shot}) \subseteq used

\* A capture that was sent is gone, and does not come back.
SentInv == sendAt = "ok" => sendFile \notin Own(disk)

\* No step stages a capture without a flag that says so.
LEMMA FlagStep == FilesOK /\ FlagInv /\ [Next]_vars => FlagInv'
<1> SUFFICES ASSUME FilesOK, FlagInv, [Next]_vars PROVE FlagInv'
  OBVIOUS
<1> USE DEF FilesOK, FlagInv, Own, diskVars, stageVars, voiceVars, camVars, sendVars, callVars
<1>0. None \notin Captures /\ (UserFiles \cup Gifs) \cap Captures = {}
  BY NoneAssumption, NamesAssumption DEF Files
<1>1. CASE CancelAttachment
  BY <1>0, <1>1 DEF CancelAttachment, Discard
<1>2. CASE SelectConversation \/ AttachFromDisk
  BY <1>0, <1>2 DEF SelectConversation, AttachFromDisk
<1>3. CASE PickImage \/ ChooseGif \/ GifFetch
  BY <1>0, <1>3 DEF PickImage, ChooseGif, GifFetch, Stage
<1>4. CASE StartRecording
  BY <1>0, <1>4 DEF StartRecording, DropPending, Discard, Opens
<1>5. CASE StopRecording \/ FallbackFires
  BY <1>5 DEF StopRecording, FallbackFires, Stop, Terminate
<1>6. CASE VoiceExits
  BY <1>6 DEF VoiceExits, VoiceEnds, Opens
<1>7. CASE OpenCamera
  BY <1>0, <1>7 DEF OpenCamera, DropPending, Discard, Stop, Terminate
<1>8. CASE CloseCamera \/ StartCountdown \/ RunCapture \/ CaptureExits
  BY <1>8 DEF CloseCamera, StartCountdown, RunCapture, CaptureExits, Stage
<1>9. CASE SendAttachment \/ SendMedia \/ SendReturns
  BY <1>0, <1>9 DEF SendAttachment, SendMedia, SendReturns
<1>10. CASE PruneCaches \/ (\E f \in Files : DiscardCapture(f))
  BY <1>10 DEF PruneCaches, DiscardCapture
<1>11. CASE Disconnect \/ Reconnect
  BY <1>11 DEF Disconnect, Reconnect
<1>12. CASE UNCHANGED vars
  BY <1>12 DEF vars
<1> QED
  BY <1>1, <1>2, <1>3, <1>4, <1>5, <1>6, <1>7, <1>8, <1>9, <1>10, <1>11, <1>12 DEF Next

\* A new name is nobody's, and a name that is staged, sent or written is not new any more.
LEMMA NamesStep == FilesOK /\ NamesInv /\ [Next]_vars => NamesInv'
<1> SUFFICES ASSUME FilesOK, NamesInv, [Next]_vars PROVE NamesInv'
  OBVIOUS
<1> USE DEF FilesOK, NamesInv, Own, diskVars, stageVars, voiceVars, camVars, sendVars, callVars
<1>0. /\ None \notin Captures /\ (UserFiles \cup Gifs) \cap Captures = {}
      /\ Voices \cap Photos = {} /\ Voices \subseteq Captures /\ Photos \subseteq Captures
  BY NoneAssumption, NamesAssumption DEF Files, Captures
<1>1. CASE CancelAttachment \/ SelectConversation \/ AttachFromDisk
  BY <1>0, <1>1 DEF CancelAttachment, SelectConversation, AttachFromDisk
<1>2. CASE PickImage \/ ChooseGif \/ GifFetch
  BY <1>0, <1>2 DEF PickImage, ChooseGif, GifFetch, Stage
<1>3. CASE StartRecording
  <2> DEFINE f == Fresh(Voices)
  <2>1. f \in Voices \ used
    BY <1>0, <1>3, FreshIsNew, NamesAssumption DEF StartRecording, Opens
  <2> HIDE DEF f
  <2> QED
    BY <1>0, <1>3, <2>1 DEF StartRecording, DropPending, f, Opens
<1>4. CASE StopRecording \/ FallbackFires
  BY <1>4 DEF StopRecording, FallbackFires, Stop, Terminate
<1>5. CASE VoiceExits
  BY <1>0, <1>5 DEF VoiceExits, VoiceEnds, Opens
<1>6. CASE OpenCamera
  BY <1>0, <1>6 DEF OpenCamera, DropPending, Stop, Terminate
<1>7. CASE RunCapture
  <2> DEFINE f == Fresh(Photos)
  <2>1. f \in Photos \ used
    BY <1>0, <1>7, FreshIsNew, NamesAssumption DEF RunCapture
  <2> HIDE DEF f
  <2> QED
    BY <1>0, <1>7, <2>1 DEF RunCapture, f
<1>8. CASE CloseCamera \/ StartCountdown \/ CaptureExits
  BY <1>0, <1>8 DEF CloseCamera, StartCountdown, CaptureExits, Stage
<1>9. CASE SendAttachment \/ SendMedia \/ SendReturns
  BY <1>0, <1>9 DEF SendAttachment, SendMedia, SendReturns
<1>10. CASE PruneCaches \/ (\E f \in Files : DiscardCapture(f))
  BY <1>10 DEF PruneCaches, DiscardCapture
<1>11. CASE Disconnect \/ Reconnect
  BY <1>11 DEF Disconnect, Reconnect
<1>12. CASE UNCHANGED vars
  BY <1>12 DEF vars
<1> QED
  BY <1>1, <1>2, <1>3, <1>4, <1>5, <1>6, <1>7, <1>8, <1>9, <1>10, <1>11, <1>12 DEF Next

\* What is written to the disk is never what was sent before.
LEMMA SentStep == FilesOK /\ NamesInv /\ SentInv /\ [Next]_vars => SentInv'
<1> SUFFICES ASSUME FilesOK, NamesInv, SentInv, [Next]_vars PROVE SentInv'
  OBVIOUS
<1> USE DEF FilesOK, NamesInv, SentInv, Own, diskVars, stageVars, voiceVars, camVars, sendVars,
           callVars
<1>0. /\ None \notin Captures /\ (UserFiles \cup Gifs) \cap Captures = {}
      /\ Voices \cap Photos = {} /\ Voices \subseteq Captures /\ Photos \subseteq Captures
  BY NoneAssumption, NamesAssumption DEF Files, Captures
<1>1. CASE CancelAttachment \/ SelectConversation \/ AttachFromDisk
  BY <1>1 DEF CancelAttachment, SelectConversation, AttachFromDisk
<1>2. CASE PickImage \/ ChooseGif \/ GifFetch
  BY <1>0, <1>2 DEF PickImage, ChooseGif, GifFetch, Stage
<1>3. CASE StartRecording
  <2> DEFINE f == Fresh(Voices)
  <2>1. f \in Voices \ used
    BY <1>0, <1>3, FreshIsNew, NamesAssumption DEF StartRecording, Opens
  <2> HIDE DEF f
  <2> QED
    BY <1>0, <1>3, <2>1 DEF StartRecording, f, Opens
<1>4. CASE StopRecording \/ FallbackFires
  BY <1>4 DEF StopRecording, FallbackFires, Stop, Terminate
<1>5. CASE VoiceExits
  BY <1>0, <1>5 DEF VoiceExits, VoiceEnds, Opens
<1>6. CASE OpenCamera \/ CloseCamera \/ StartCountdown \/ RunCapture
  BY <1>6 DEF OpenCamera, CloseCamera, StartCountdown, RunCapture
<1>7. CASE CaptureExits
  BY <1>0, <1>7 DEF CaptureExits, Stage
<1>8. CASE SendAttachment \/ SendMedia \/ SendReturns
  BY <1>8 DEF SendAttachment, SendMedia, SendReturns, Deleted, IsOwnCapture
<1>9. CASE PruneCaches \/ (\E f \in Files : DiscardCapture(f))
  BY <1>9 DEF PruneCaches, DiscardCapture, Deleted
<1>10. CASE Disconnect \/ Reconnect
  BY <1>10 DEF Disconnect, Reconnect
<1>11. CASE UNCHANGED vars
  BY <1>11 DEF vars
<1> QED
  BY <1>1, <1>2, <1>3, <1>4, <1>5, <1>6, <1>7, <1>8, <1>9, <1>10, <1>11 DEF Next

\* Whoever stops holding a capture leaves it to a discard, or lets go of it.
LEMMA AccountedStep ==
    FilesOK /\ FlagInv /\ SentInv /\ CapturesAccounted /\ [Next]_vars => CapturesAccounted'
<1> SUFFICES ASSUME FilesOK, FlagInv, SentInv, CapturesAccounted, [Next]_vars
             PROVE  CapturesAccounted'
  OBVIOUS
<1> USE DEF FilesOK, FlagInv, CapturesAccounted, Own, diskVars, stageVars, voiceVars, camVars,
            sendVars, callVars
<1>0. None \notin Captures /\ (UserFiles \cup Gifs) \cap Captures = {}
  BY NoneAssumption, NamesAssumption DEF Files
<1>1. CASE CancelAttachment
  BY <1>0, <1>1 DEF CancelAttachment, Discard, Discardable
<1>2. CASE SelectConversation \/ AttachFromDisk
  BY <1>0, <1>2 DEF SelectConversation, AttachFromDisk
<1>3. CASE PickImage \/ ChooseGif \/ GifFetch
  BY <1>0, <1>3 DEF PickImage, ChooseGif, GifFetch, Stage
<1>4. CASE StartRecording
  BY <1>0, <1>4 DEF StartRecording, DropPending, Discard, Discardable, Opens
<1>5. CASE StopRecording \/ FallbackFires
  BY <1>5 DEF StopRecording, FallbackFires, Stop, Terminate
<1>6. CASE VoiceExits
  BY <1>0, <1>6 DEF VoiceExits, VoiceEnds, Opens
<1>7. CASE OpenCamera
  BY <1>0, <1>7 DEF OpenCamera, DropPending, Discard, Discardable, Stop, Terminate
<1>8. CASE CloseCamera \/ StartCountdown \/ RunCapture \/ CaptureExits
  BY <1>8 DEF CloseCamera, StartCountdown, RunCapture, CaptureExits, Stage
<1>9. CASE SendAttachment \/ SendMedia
  BY <1>9 DEF SendAttachment, SendMedia, Deleted
<1>10. CASE SendReturns
  BY <1>0, <1>10 DEF SendReturns, SentInv
<1>11. CASE PruneCaches \/ (\E f \in Files : DiscardCapture(f))
  BY <1>11 DEF PruneCaches, DiscardCapture, Deleted, IsOwnCapture
<1>12. CASE Disconnect \/ Reconnect
  BY <1>12 DEF Disconnect, Reconnect
<1>13. CASE UNCHANGED vars
  BY <1>13 DEF vars
<1> QED
  BY <1>1, <1>2, <1>3, <1>4, <1>5, <1>6, <1>7, <1>8, <1>9, <1>10, <1>11, <1>12, <1>13 DEF Next

\* A capture that exists is staged, being written or about to be discarded, unless the
\* panel let go of it: for any recordings, photos, switches of threads, calls and broken
\* connections (Panel.qml:197-212, 413-440, 455-466, 640-672).
THEOREM CapturesAccountedAlways == Spec => []CapturesAccounted
<1> DEFINE Inv == FilesOK /\ FlagInv /\ NamesInv /\ SentInv /\ CapturesAccounted
<1>1. Init => Inv
  BY NoneAssumption, NamesAssumption
     DEF Init, FilesOK, FlagInv, NamesInv, SentInv, CapturesAccounted, Own, Files
<1>2. Inv /\ [Next]_vars => Inv'
  BY FilesStep, FlagStep, NamesStep, SentStep, AccountedStep
<1>3. Inv => CapturesAccounted
  OBVIOUS
<1> QED
  BY <1>1, <1>2, <1>3, PTL DEF Spec

-----------------------------------------------------------------------------
(* What is staged is there.                                                *)

\* Only names that were given out are discarded, and of those none that is staged or
\* being written.
DiscardInv ==
    \A f \in discards \cap Captures : f \in used /\ f \notin {pending, voicePath, shot}

\* The take that is recorded has a name that nothing else has, and its file is there or
\* known not to be.
TakeInv ==
    /\ voicePath # None => voicePath \notin {pending, sendFile}
    /\ voicePath \in disk \cup lost \cup {None}
    /\ UserFiles \subseteq disk

\* Nothing is sent twice at a time, and a capture whose send nobody hears of is given up.
HeardInv ==
    /\ sendAt # "none" => sending
    /\ sendFile # None /\ ~heard => Own({sendFile}) \subseteq lost

\* A discard is asked for when its file is let go of, and a new name is in no discard.
LEMMA DiscardStep ==
    FilesOK /\ NamesInv /\ TakeInv /\ DiscardInv /\ [Next]_vars => DiscardInv'
<1> SUFFICES ASSUME FilesOK, NamesInv, TakeInv, DiscardInv, [Next]_vars PROVE DiscardInv'
  OBVIOUS
<1> USE DEF FilesOK, NamesInv, TakeInv, DiscardInv, Own, diskVars, stageVars, voiceVars, camVars,
            sendVars, callVars
<1>0. /\ None \notin Captures /\ (UserFiles \cup Gifs) \cap Captures = {}
      /\ Voices \cap Photos = {} /\ Voices \subseteq Captures /\ Photos \subseteq Captures
  BY NoneAssumption, NamesAssumption DEF Files, Captures
<1>1. CASE CancelAttachment
  BY <1>0, <1>1 DEF CancelAttachment, Discard, Discardable
<1>2. CASE SelectConversation \/ AttachFromDisk
  BY <1>0, <1>2 DEF SelectConversation, AttachFromDisk
<1>3. CASE PickImage \/ ChooseGif \/ GifFetch
  BY <1>0, <1>3 DEF PickImage, ChooseGif, GifFetch, Stage
<1>4. CASE StartRecording
  <2> DEFINE f == Fresh(Voices)
  <2>1. f \in Voices \ used
    BY <1>0, <1>4, FreshIsNew, NamesAssumption DEF StartRecording
  <2> HIDE DEF f
  <2> QED
    BY <1>0, <1>4, <2>1 DEF StartRecording, DropPending, Discard, Discardable, f
<1>5. CASE StopRecording \/ FallbackFires
  BY <1>5 DEF StopRecording, FallbackFires, Stop, Terminate
<1>6. CASE VoiceExits
  BY <1>0, <1>6 DEF VoiceExits, VoiceEnds, Opens
<1>7. CASE OpenCamera
  BY <1>0, <1>7 DEF OpenCamera, DropPending, Discard, Discardable, Stop, Terminate
<1>8. CASE RunCapture
  <2> DEFINE f == Fresh(Photos)
  <2>1. f \in Photos \ used
    BY <1>0, <1>8, FreshIsNew, NamesAssumption DEF RunCapture
  <2> HIDE DEF f
  <2> QED
    BY <1>0, <1>8, <2>1 DEF RunCapture, f
<1>9. CASE CloseCamera \/ StartCountdown \/ CaptureExits
  BY <1>0, <1>9 DEF CloseCamera, StartCountdown, CaptureExits, Stage
<1>10. CASE SendAttachment \/ SendMedia \/ SendReturns
  BY <1>0, <1>10 DEF SendAttachment, SendMedia, SendReturns
<1>11. CASE PruneCaches \/ (\E f \in Files : DiscardCapture(f))
  BY <1>11 DEF PruneCaches, DiscardCapture
<1>12. CASE Disconnect \/ Reconnect
  BY <1>12 DEF Disconnect, Reconnect
<1>13. CASE UNCHANGED vars
  BY <1>13 DEF vars
<1> QED
  BY <1>1, <1>2, <1>3, <1>4, <1>5, <1>6, <1>7, <1>8, <1>9, <1>10, <1>11, <1>12, <1>13 DEF Next

\* A take keeps its name to itself until it is staged, and no deletion is about it.
LEMMA TakeStep ==
    FilesOK /\ NamesInv /\ DiscardInv /\ TakeInv /\ [Next]_vars => TakeInv'
<1> SUFFICES ASSUME FilesOK, NamesInv, DiscardInv, TakeInv, [Next]_vars PROVE TakeInv'
  OBVIOUS
<1> USE DEF FilesOK, NamesInv, DiscardInv, TakeInv, Own, diskVars, stageVars, voiceVars, camVars,
            sendVars, callVars
<1>0. /\ None \notin Captures /\ (UserFiles \cup Gifs) \cap Captures = {}
      /\ Voices \cap Photos = {} /\ Voices \subseteq Captures /\ Photos \subseteq Captures
      /\ None \notin UserFiles \cup Gifs /\ UserFiles \cap Gifs = {}
  BY NoneAssumption, NamesAssumption DEF Files, Captures
<1>1. CASE CancelAttachment \/ SelectConversation \/ AttachFromDisk
  BY <1>0, <1>1 DEF CancelAttachment, SelectConversation, AttachFromDisk
<1>2. CASE PickImage \/ ChooseGif \/ GifFetch
  BY <1>0, <1>2 DEF PickImage, ChooseGif, GifFetch, Stage
<1>3. CASE StartRecording
  <2> DEFINE f == Fresh(Voices)
  <2>1. f \in Voices \ used
    BY <1>0, <1>3, FreshIsNew, NamesAssumption DEF StartRecording
  <2> HIDE DEF f
  <2> QED
    BY <1>0, <1>3, <2>1 DEF StartRecording, DropPending, Opens, f
<1>4. CASE StopRecording \/ FallbackFires
  BY <1>4 DEF StopRecording, FallbackFires, Stop, Terminate
<1>5. CASE VoiceExits
  BY <1>0, <1>5 DEF VoiceExits, VoiceEnds, Opens
<1>6. CASE OpenCamera
  BY <1>0, <1>6 DEF OpenCamera, DropPending, Stop, Terminate
<1>7. CASE CloseCamera \/ StartCountdown \/ RunCapture \/ CaptureExits
  BY <1>0, <1>7 DEF CloseCamera, StartCountdown, RunCapture, CaptureExits, Stage
<1>8. CASE SendAttachment \/ SendMedia \/ SendReturns
  BY <1>0, <1>8 DEF SendAttachment, SendMedia, SendReturns, Deleted, IsOwnCapture
<1>9. CASE PruneCaches \/ (\E f \in Files : DiscardCapture(f))
  BY <1>0, <1>9 DEF PruneCaches, DiscardCapture, Deleted, IsOwnCapture
<1>10. CASE Disconnect \/ Reconnect
  BY <1>10 DEF Disconnect, Reconnect
<1>11. CASE UNCHANGED vars
  BY <1>11 DEF vars
<1> QED
  BY <1>1, <1>2, <1>3, <1>4, <1>5, <1>6, <1>7, <1>8, <1>9, <1>10, <1>11 DEF Next

\* The composer is blocked while a send is under way, and for good after one that nobody
\* hears of.
LEMMA HeardStep == FilesOK /\ NamesInv /\ HeardInv /\ [Next]_vars => HeardInv'
<1> SUFFICES ASSUME FilesOK, NamesInv, HeardInv, [Next]_vars PROVE HeardInv'
  OBVIOUS
<1> USE DEF FilesOK, HeardInv, Own, diskVars, stageVars, voiceVars, camVars, sendVars, callVars
<1>0. None \notin Captures /\ Captures \cap Gifs = {}
  BY NoneAssumption, NamesAssumption DEF Files
<1>1. CASE CancelAttachment \/ SelectConversation \/ AttachFromDisk
  BY <1>1 DEF CancelAttachment, SelectConversation, AttachFromDisk
<1>2. CASE PickImage \/ ChooseGif \/ GifFetch
  BY <1>0, <1>2 DEF PickImage, ChooseGif, GifFetch
<1>3. CASE StopRecording \/ FallbackFires \/ VoiceExits
  BY <1>3 DEF StopRecording, FallbackFires, VoiceExits, VoiceEnds, Opens, NamesInv
<1>4. CASE StartRecording
  <2> DEFINE f == Fresh(Voices)
  <2>1. f \in Voices \ used
    BY <1>0, <1>4, FreshIsNew, NamesAssumption DEF StartRecording, Captures
  <2> HIDE DEF f
  <2> QED
    BY <1>0, <1>4, <2>1 DEF StartRecording, Opens, NamesInv, f
<1>5. CASE OpenCamera \/ CloseCamera \/ StartCountdown \/ RunCapture \/ CaptureExits
  BY <1>5 DEF OpenCamera, CloseCamera, StartCountdown, RunCapture, CaptureExits
<1>6. CASE SendAttachment
  BY <1>6 DEF SendAttachment
<1>7. CASE SendMedia \/ SendReturns
  BY <1>7 DEF SendMedia, SendReturns
<1>8. CASE PruneCaches \/ (\E f \in Files : DiscardCapture(f))
  BY <1>8 DEF PruneCaches, DiscardCapture
<1>9. CASE Disconnect \/ Reconnect
  BY <1>9 DEF Disconnect, Reconnect
<1>10. CASE UNCHANGED vars
  BY <1>10 DEF vars
<1> QED
  BY <1>1, <1>2, <1>3, <1>4, <1>5, <1>6, <1>7, <1>8, <1>9, <1>10 DEF Next

\* What is staged was there when it was staged, and who deletes it lets go of it first or
\* is named by the property.
LEMMA StagedStep ==
    FilesOK /\ DiscardInv /\ TakeInv /\ HeardInv /\ StagedIsThere /\ [Next]_vars
        => StagedIsThere'
<1> SUFFICES ASSUME FilesOK, DiscardInv, TakeInv, HeardInv, StagedIsThere, [Next]_vars
             PROVE  StagedIsThere'
  OBVIOUS
<1> USE DEF FilesOK, StagedIsThere, Own, diskVars, stageVars, voiceVars, camVars, sendVars,
            callVars
<1>0. None \notin Captures /\ Captures \cap (UserFiles \cup Gifs) = {}
  BY NoneAssumption, NamesAssumption DEF Files
<1>1. CASE CancelAttachment \/ SelectConversation \/ AttachFromDisk
  BY <1>1 DEF CancelAttachment, SelectConversation, AttachFromDisk
<1>2. CASE PickImage \/ ChooseGif \/ GifFetch
  BY <1>0, <1>2 DEF PickImage, ChooseGif, GifFetch, Stage, TakeInv
<1>3. CASE StartRecording
  BY <1>3 DEF StartRecording, DropPending
<1>4. CASE StopRecording \/ FallbackFires
  BY <1>4 DEF StopRecording, FallbackFires
<1>5. CASE VoiceExits
  BY <1>5 DEF VoiceExits, VoiceEnds, Opens, TakeInv
<1>6. CASE OpenCamera
  BY <1>6 DEF OpenCamera, DropPending
<1>7. CASE CloseCamera \/ StartCountdown \/ RunCapture \/ CaptureExits
  BY <1>7 DEF CloseCamera, StartCountdown, RunCapture, CaptureExits, Stage
<1>8. CASE SendAttachment
  BY <1>8 DEF SendAttachment, HeardInv
<1>9. CASE SendMedia
  BY <1>9 DEF SendMedia, Deleted, IsOwnCapture
<1>10. CASE SendReturns
  BY <1>0, <1>10 DEF SendReturns, HeardInv
<1>11. CASE PruneCaches
  BY <1>11 DEF PruneCaches
<1>12. ASSUME NEW f \in Files, DiscardCapture(f) PROVE StagedIsThere'
  BY <1>12 DEF DiscardCapture, Deleted, IsOwnCapture, DiscardInv
<1>13. CASE Disconnect \/ Reconnect
  BY <1>13 DEF Disconnect, Reconnect
<1>14. CASE UNCHANGED vars
  BY <1>14 DEF vars
<1> QED
  BY <1>1, <1>2, <1>3, <1>4, <1>5, <1>6, <1>7, <1>8, <1>9, <1>10, <1>11, <1>12, <1>13,
     <1>14 DEF Next

\* What is staged is on the disk unless it was pruned, never opened, or sent and its answer
\* is under way or lost: no discard, however late and by whatever flags, takes a file that
\* is staged, for any files, takes, sends, prunes and broken connections (Panel.qml:413-440,
\* 640-672, 705-716, capture.go:17-45, sendmedia.go:116-121, mediaprune.go:24-37).
THEOREM StagedIsThereAlways == Spec => []StagedIsThere
<1> DEFINE Inv ==
       FilesOK /\ NamesInv /\ DiscardInv /\ TakeInv /\ HeardInv /\ StagedIsThere
<1>1. Init => Inv
  BY NoneAssumption, NamesAssumption
     DEF Init, FilesOK, NamesInv, DiscardInv, TakeInv, HeardInv, StagedIsThere, Own, Files
<1>2. Inv /\ [Next]_vars => Inv'
  BY FilesStep, NamesStep, DiscardStep, TakeStep, HeardStep, StagedStep
<1>3. Inv => StagedIsThere
  OBVIOUS
<1> QED
  BY <1>1, <1>2, <1>3, PTL DEF Spec
=============================================================================

---------------------------- MODULE PrivacyProofs ----------------------------
(***************************************************************************)
(* Theorems of Privacy: the overlay covers the client the panel knows of,  *)
(* and what may lift it. They rest on three facts about what the panel     *)
(* knows: a posted input that may lift the overlay is newer than the last  *)
(* refresh that saw a client; the file tells the truth unless it is being  *)
(* written; and a client that was noticed is known until it leaves.        *)
(***************************************************************************)
EXTENDS Privacy, TLAPS

Readings == [connected : BOOLEAN, settings : BOOLEAN]

\* What a refresh reads is a reading.
LEMMA ReadingType ==
    ASSUME TypeOK, NEW d \in BOOLEAN \cup {None}, ReadFiles(d)
    PROVE  /\ read' \in Readings /\ read' # None /\ misread' \in BOOLEAN
           /\ read'.connected = (status = "connected")
<1>1. read' = [connected |-> status = "connected", settings |-> IF d = None THEN FALSE ELSE d]
  BY DEF ReadFiles
<1>2. (IF d = None THEN FALSE ELSE d) \in BOOLEAN
  OBVIOUS
<1>3. (status = "connected") \in BOOLEAN
  OBVIOUS
<1>4. read' \in Readings
  BY <1>1, <1>2, <1>3 DEF Readings
<1>5. read' # None
  BY <1>4, NoneAssumption DEF Readings
<1>6. misread' \in BOOLEAN
  BY DEF ReadFiles, TypeOK
<1> QED
  BY <1>1, <1>4, <1>5, <1>6

LEMMA InitInv == Init => PrivacyInv
  BY DEF Init, PrivacyInv, TypeOK, KnownClientIsCovered, InputIsNew, FileIsTrue, NoticedIsKnown,
         StatusOf

\* The Host's writes, and those of a second process
LEMMA WritesInv ==
    ASSUME PrivacyInv,
           \/ \E c \in BOOLEAN : HostWrites(c)
           \/ HostWritten
           \/ \E v \in BOOLEAN : CommandSets(v)
           \/ CommandWritten
    PROVE  PrivacyInv'
<1>1. ASSUME NEW c \in BOOLEAN, HostWrites(c) PROVE PrivacyInv'
  BY <1>1 DEF HostWrites, PrivacyInv, TypeOK, KnownClientIsCovered, InputIsNew, FileIsTrue,
              NoticedIsKnown, policy, panel, overlay, hook
<1>2. CASE HostWritten
  BY <1>2 DEF HostWritten, StatusOf, PrivacyInv, TypeOK, KnownClientIsCovered, InputIsNew,
              FileIsTrue, NoticedIsKnown, policy, panel, overlay, hook, ghosts
<1>3. ASSUME NEW v \in BOOLEAN, CommandSets(v) PROVE PrivacyInv'
  BY <1>3 DEF CommandSets, PrivacyInv, TypeOK, KnownClientIsCovered, InputIsNew, FileIsTrue,
              NoticedIsKnown, host, panel, overlay, hook, ghosts
<1>4. CASE CommandWritten
  BY <1>4 DEF CommandWritten, PrivacyInv, TypeOK, KnownClientIsCovered, InputIsNew, FileIsTrue,
              NoticedIsKnown, host, panel, overlay, hook, ghosts
<1> QED
  BY <1>1, <1>2, <1>3, <1>4

\* A refresh: what it reads, and what it makes of it.
LEMMA RefreshInv ==
    ASSUME PrivacyInv, window # "gone", BeginRefresh \/ EndRefresh PROVE PrivacyInv'
<1>1. CASE BeginRefresh
  <2>1. TypeOK /\ disk \in BOOLEAN \cup {None}
    BY DEF PrivacyInv, TypeOK
  <2>2. /\ read' \in Readings /\ read' # None /\ misread' \in BOOLEAN
        /\ read'.connected = (status = "connected")
    BY <1>1, <2>1, ReadingType DEF BeginRefresh
  <2>3. misread' = (misread \/ status = None \/ disk = None)
    BY <1>1 DEF BeginRefresh, ReadFiles
  <2>4. TypeOK'
    BY <1>1, <2>1, <2>2 DEF BeginRefresh, Free, TypeOK, Readings, host, policy, overlay, hook
  <2>5. KnownClientIsCovered' /\ InputIsNew' /\ FileIsTrue'
    BY <1>1, <2>2 DEF BeginRefresh, PrivacyInv, KnownClientIsCovered, InputIsNew, FileIsTrue,
                      host, policy, overlay, hook
  <2>6. NoticedIsKnown'
    BY <1>1, <2>2, <2>3 DEF BeginRefresh, PrivacyInv, FileIsTrue, NoticedIsKnown, StatusOf, host,
                            policy, overlay, hook
  <2> QED
    BY <2>4, <2>5, <2>6 DEF PrivacyInv
<1>2. CASE EndRefresh
  <2>1. /\ read # None /\ read.connected \in BOOLEAN /\ read.settings \in BOOLEAN
        /\ read' = None /\ connected' = read.connected /\ settings' = read.settings
        /\ latched' = (supported /\ read.settings /\ (read.connected \/ latched))
        /\ visible' = latched' /\ popup' = (IF latched' THEN FALSE ELSE popup)
        /\ armed' = (latched' /\ ~read.connected)
        /\ noticed' = (conn /\ (read.connected \/ noticed))
        /\ touched' = (touched /\ ~read.connected)
    BY <1>2 DEF EndRefresh, NextPrivacyLatch, SetVisible, ArmedFor, PrivacyInv, TypeOK
  <2>2. UNCHANGED <<host, policy, supported, failing, posted, window, misread>>
    BY <1>2 DEF EndRefresh
  <2>3. TypeOK'
    <3>1. /\ connected' \in BOOLEAN /\ settings' \in BOOLEAN /\ latched' \in BOOLEAN
          /\ visible' \in BOOLEAN /\ popup' \in BOOLEAN /\ armed' \in BOOLEAN
          /\ noticed' \in BOOLEAN /\ touched' \in BOOLEAN
          /\ conn' \in BOOLEAN /\ supported' \in BOOLEAN /\ failing' \in BOOLEAN
          /\ posted' \in BOOLEAN /\ misread' \in BOOLEAN
      BY <2>1, <2>2 DEF PrivacyInv, TypeOK, host
    <3>2. /\ status' \in {"connected", "idle", None}
          /\ {disk', pending'} \subseteq BOOLEAN \cup {None}
          /\ read' \in [connected : BOOLEAN, settings : BOOLEAN] \cup {None}
          /\ window' \in {"open", "closing", "gone"}
      BY <2>1, <2>2 DEF PrivacyInv, TypeOK, host, policy
    <3>3. (visible' => latched' /\ supported') /\ (window' = "gone" => ~visible')
      BY <2>1, <2>2
    <3> QED
      BY <3>1, <3>2, <3>3 DEF TypeOK
  <2>4. KnownClientIsCovered' /\ FileIsTrue'
    BY <2>1, <2>2 DEF PrivacyInv, TypeOK, KnownClientIsCovered, FileIsTrue, host
  <2>5. InputIsNew' /\ NoticedIsKnown'
    BY <2>1, <2>2 DEF PrivacyInv, TypeOK, InputIsNew, NoticedIsKnown, host
  <2> QED
    BY <2>3, <2>4, <2>5 DEF PrivacyInv
<1> QED
  BY <1>1, <1>2

\* The local user: an input, a hook that fails, the release.
LEMMA InputInv ==
    ASSUME PrivacyInv,
           \/ \E i \in BOOLEAN : Input(i)
           \/ PostFails \/ Rearm \/ Release
    PROVE  PrivacyInv'
<1>1. ASSUME NEW i \in BOOLEAN, Input(i) PROVE PrivacyInv'
  <2>1. armed /\ ~armed' /\ posted' /\ touched'
    BY <1>1 DEF Input, IsPhysical
  <2>2. UNCHANGED <<host, policy, panel, overlay, failing, noticed, misread>>
    BY <1>1 DEF Input
  <2>3. TypeOK'
    <3>1. /\ armed' \in BOOLEAN /\ posted' \in BOOLEAN /\ touched' \in BOOLEAN
      BY <1>1 DEF Input
    <3>2. /\ conn' \in BOOLEAN /\ settings' \in BOOLEAN /\ connected' \in BOOLEAN
          /\ supported' \in BOOLEAN /\ latched' \in BOOLEAN /\ visible' \in BOOLEAN
          /\ popup' \in BOOLEAN /\ failing' \in BOOLEAN /\ noticed' \in BOOLEAN
          /\ misread' \in BOOLEAN
          /\ visible' => latched' /\ supported'
          /\ window' = "gone" => ~visible'
      BY <2>2 DEF PrivacyInv, TypeOK, host, policy, panel, overlay
    <3>3. /\ status' \in {"connected", "idle", None}
          /\ {disk', pending'} \subseteq BOOLEAN \cup {None}
          /\ read' \in [connected : BOOLEAN, settings : BOOLEAN] \cup {None}
          /\ window' \in {"open", "closing", "gone"}
      BY <2>2 DEF PrivacyInv, TypeOK, host, policy, panel, overlay
    <3> QED
      BY <3>1, <3>2, <3>3 DEF TypeOK
  <2>4. KnownClientIsCovered' /\ InputIsNew'
    BY <2>1, <2>2 DEF PrivacyInv, KnownClientIsCovered, InputIsNew, host, panel, overlay
  <2>5. FileIsTrue' /\ NoticedIsKnown'
    BY <2>1, <2>2 DEF PrivacyInv, FileIsTrue, NoticedIsKnown, host, policy, panel, overlay
  <2> QED
    BY <2>3, <2>4, <2>5 DEF PrivacyInv
<1>2. CASE PostFails \/ Rearm
  <2>1. /\ armed' \in BOOLEAN /\ failing' \in BOOLEAN
        /\ armed' \/ failing' => armed \/ failing
    BY <1>2 DEF PostFails, Rearm
  <2>2. UNCHANGED <<host, policy, panel, overlay, posted, ghosts>>
    BY <1>2 DEF PostFails, Rearm
  <2>3. TypeOK'
    BY <2>1, <2>2 DEF PrivacyInv, TypeOK, host, policy, panel, overlay, ghosts
  <2>4. KnownClientIsCovered' /\ InputIsNew'
    BY <2>1, <2>2 DEF PrivacyInv, KnownClientIsCovered, InputIsNew, host, panel, overlay, ghosts
  <2>5. FileIsTrue' /\ NoticedIsKnown'
    BY <2>2 DEF PrivacyInv, FileIsTrue, NoticedIsKnown, host, policy, panel, overlay, ghosts
  <2> QED
    BY <2>3, <2>4, <2>5 DEF PrivacyInv
<1>3. CASE Release
  BY <1>3 DEF Release, Free, SetVisible, PrivacyInv, TypeOK, KnownClientIsCovered, InputIsNew,
              FileIsTrue, NoticedIsKnown, host, policy, panel, overlay, ghosts
<1> QED
  BY <1>1, <1>2, <1>3

\* A click writes the settings and refreshes.
LEMMA ToggleInv ==
    ASSUME PrivacyInv, TogglePrivacy \/ ToggleMute PROVE PrivacyInv'
<1>1. PICK new \in BOOLEAN : Toggle(new)
  BY DEF TogglePrivacy, ToggleMute, PrivacyInv, TypeOK
<1>2. /\ read' \in Readings /\ read' # None /\ misread' \in BOOLEAN
      /\ read'.connected = (status = "connected")
  BY <1>1, ReadingType DEF Toggle, PrivacyInv
<1>3. (misread \/ status = None) => misread'
  BY <1>1 DEF Toggle, ReadFiles
<1>4. TypeOK'
  BY <1>1, <1>2 DEF Toggle, Free, PrivacyInv, TypeOK, Readings, host, overlay, hook
<1>5. KnownClientIsCovered' /\ InputIsNew' /\ FileIsTrue'
  BY <1>1, <1>2 DEF Toggle, PrivacyInv, KnownClientIsCovered, InputIsNew, FileIsTrue, host, hook
<1>6. NoticedIsKnown'
  BY <1>1, <1>2, <1>3 DEF Toggle, PrivacyInv, FileIsTrue, NoticedIsKnown, StatusOf, host, hook
<1> QED
  BY <1>4, <1>5, <1>6 DEF PrivacyInv

\* Other windows, and the end of the panel
LEMMA WindowsInv ==
    ASSUME PrivacyInv, WindowAbove \/ OnWindowEvent \/ Close \/ CloseFails \/ Destroy PROVE PrivacyInv'
<1>1. CASE WindowAbove \/ OnWindowEvent
  <2>1. popup' \in BOOLEAN
    BY <1>1 DEF WindowAbove, OnWindowEvent
  <2>2. UNCHANGED <<host, policy, panel, latched, visible, hook, ghosts>>
    BY <1>1 DEF WindowAbove, OnWindowEvent
  <2>3. TypeOK'
    BY <2>1, <2>2 DEF PrivacyInv, TypeOK, host, policy, panel, hook, ghosts
  <2>4. KnownClientIsCovered' /\ InputIsNew'
    BY <2>2 DEF PrivacyInv, KnownClientIsCovered, InputIsNew, host, panel, hook, ghosts
  <2>5. FileIsTrue' /\ NoticedIsKnown'
    BY <2>2 DEF PrivacyInv, FileIsTrue, NoticedIsKnown, host, policy, panel, hook, ghosts
  <2> QED
    BY <2>3, <2>4, <2>5 DEF PrivacyInv
<1>2. CASE Close \/ CloseFails
  BY <1>2 DEF Close, CloseFails, PrivacyInv, TypeOK, KnownClientIsCovered, InputIsNew, FileIsTrue,
              NoticedIsKnown, host, policy, overlay, hook, ghosts
<1>3. CASE Destroy
  BY <1>3 DEF Destroy, SetVisible, PrivacyInv, TypeOK, KnownClientIsCovered, InputIsNew, FileIsTrue,
              NoticedIsKnown, host, policy, ghosts
<1> QED
  BY <1>1, <1>2, <1>3

LEMMA StepInv == PrivacyInv /\ [Next]_vars => PrivacyInv'
<1> SUFFICES ASSUME PrivacyInv, [Next]_vars PROVE PrivacyInv'
  OBVIOUS
<1>1. CASE Next
  BY <1>1, WritesInv, RefreshInv, InputInv, ToggleInv, WindowsInv DEF Next, Pump
<1>2. CASE UNCHANGED vars
  BY <1>2 DEF vars, host, policy, panel, overlay, hook, ghosts, PrivacyInv, TypeOK,
              KnownClientIsCovered, InputIsNew, FileIsTrue, NoticedIsKnown
<1> QED
  BY <1>1, <1>2

\* The strengthening holds in every behaviour.
THEOREM Invariant == Spec => []PrivacyInv
  BY InitInv, StepInv, PTL DEF Spec

\* The state of the panel is well formed; an overlay that is visible is latched,
\* and supported by what captures the desktop.
THEOREM TypeCorrect == Spec => []TypeOK
<1>1. PrivacyInv => TypeOK
  BY DEF PrivacyInv
<1> QED
  BY <1>1, Invariant, PTL

\* While the panel knows of a client it covers the desktop.
THEOREM Covered == Spec => []KnownClientIsCovered
<1>1. PrivacyInv => KnownClientIsCovered
  BY DEF PrivacyInv
<1> QED
  BY <1>1, Invariant, PTL

\* What lifts the overlay, step by step: the end of a refresh that finds the
\* setting off, the release, or the end of the panel.
LEMMA LiftingSteps ==
    ASSUME PrivacyInv, Next, visible, ~visible'
    PROVE  \/ settings' = FALSE
           \/ window' = "gone"
           \/ touched /\ ~connected /\ read = None /\ UNCHANGED <<conn, noticed, misread>>
<1>1. CASE EndRefresh
  BY <1>1 DEF EndRefresh, NextPrivacyLatch, SetVisible, PrivacyInv, TypeOK
<1>2. CASE Release
  BY <1>2 DEF Release, Free, PrivacyInv, InputIsNew, overlay, ghosts, host
<1>3. CASE Destroy
  BY <1>3 DEF Destroy
<1>4. CASE ~(EndRefresh \/ Release \/ Destroy)
  <2>1. visible' = visible
    BY <1>4 DEF Next, Pump, HostWrites, HostWritten, BeginRefresh, Input, PostFails, Rearm,
                TogglePrivacy, ToggleMute, Toggle, CommandSets, CommandWritten, WindowAbove,
                OnWindowEvent, Close, CloseFails, overlay
  <2> QED
    BY <2>1
<1> QED
  BY <1>1, <1>2, <1>3, <1>4

\* The overlay goes only for the local user, the setting, or with the panel.
THEOREM OnlyTheUserLifts == Spec => LiftedByUser
<1>1. PrivacyInv /\ [Next]_vars
        => [visible /\ ~visible' => touched \/ ~settings' \/ window' = "gone"]_vars
  BY LiftingSteps
<1> QED
  BY <1>1, Invariant, PTL DEF Spec, LiftedByUser

\* An input does not lift it from a client that was noticed, unless a file was
\* found empty.
THEOREM NoticedClientStaysCovered == Spec => LiftedWhileIdle
<1>1. PrivacyInv /\ [Next]_vars => [Lifted /\ ~misread => ~(conn /\ noticed)]_vars
  <2> SUFFICES ASSUME PrivacyInv, Next, Lifted, ~misread, conn, noticed PROVE FALSE
    OBVIOUS
  <2>1. connected /\ (read # None => read.connected)
    BY DEF PrivacyInv, NoticedIsKnown
  <2>2. ~(settings' = FALSE) /\ window' # "gone" /\ visible /\ ~visible'
    BY DEF Lifted
  <2> QED
    BY <2>1, <2>2, LiftingSteps
<1> QED
  BY <1>1, Invariant, PTL DEF Spec, LiftedWhileIdle
=============================================================================

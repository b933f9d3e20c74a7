---------------------------- MODULE ThreadProofs ----------------------------
(***************************************************************************)
(* Proofs about the two programs in which a second thread works on what    *)
(* the main thread changes: Bdc, the bench tool with its telemetry thread, *)
(* for any Talons, pins, subscriptions, values and entries of the menu,    *)
(* and Cannon with its notifier, for any number of barrels.                *)
(***************************************************************************)
EXTENDS Bdc, Cannon, SequenceTheorems, FiniteSetTheorems, TLAPS

-----------------------------------------------------------------------------
(* The inductive invariant of Bdc.                                          *)

\* The objects there are.
Exists(d) ==
  \/ d.type = "Talon" /\ d.ID \in allTalons
  \/ d.type = "DIO" /\ pinUse[d.ID] = "input"
  \/ d.type = "RoboRIO" /\ thread # "start"

\* The vector lists every object there is at one place, but for the one a
\* change is about to add or to take away.
OnePlaceEach ==
  \A i, j \in DOMAIN graphable : graphable[i] = graphable[j] => i = j

ListsWhatExists ==
  \A d \in Devices :
    (\E i \in DOMAIN graphable : graphable[i] = d)
      <=> \/ Exists(d) /\ change # Push(d)
          \/ ~Exists(d) /\ change = Erase(d)

\* A change is about an object just created or just deleted.
ChangeIsDue ==
  \A d \in Devices : /\ change = Push(d) => Exists(d)
                     /\ change = Erase(d) => ~Exists(d)

\* What the thread found is where it found it until it fetches it.
FoundInPlace ==
  thread = "bind" /\ binding \notin suspect =>
    /\ index + 1 \in DOMAIN graphable
    /\ graphable[index + 1] = Subscriptions[binding].device

\* What it fetched is the object of the device subscribed to, and is there.
BundlesAreLive ==
  \A s \in Slots \ suspect :
    Subscriptions[s].Bundle # Unset /\ ~(thread = "bind" /\ binding = s) =>
      /\ Subscriptions[s].Bundle = Subscriptions[s].device
      /\ Exists(Subscriptions[s].Bundle)

\* The menus open are those of one path through them.
Settings == DOMAIN SensorMenus \cup DOMAIN ModeMenus
Paths == {<<>>, <<"Root">>, <<"Root", "Set">>, <<"Root", "Get">>}
           \cup {<<"Root", "Set", m>> : m \in Settings}
MenusFollowOnePath ==
  menus \in Paths /\ (program = "operator" => menus # <<>>)

\* Only the operator's menus ask for a value or begin a change, one at a time,
\* after the telemetry thread has started.
OneThingAtATime ==
  /\ thread = "start" => program \in {"waiting", "autonomous"}
  /\ program # "operator" => asking = "none"
  /\ program \in {"waiting", "autonomous"} => selected = <<>>
  /\ asking = "ChangeTalons" => Len(selected) < MaxSelected
  /\ change # NoChange => program = "operator" /\ asking = "none"

\* A side of a pair is asked for by the entry chosen last.
AskedByEntry ==
  asking \in DOMAIN OneSide => entry \in 1 .. 30 /\ SetFunctions[entry] = asking

BdcInv ==
  /\ BdcTypeOK
  /\ OnePlaceEach /\ ListsWhatExists /\ ChangeIsDue
  /\ FoundInPlace /\ BundlesAreLive
  /\ MenusFollowOnePath /\ OneThingAtATime /\ AskedByEntry
-----------------------------------------------------------------------------
(* Lists of devices.                                                        *)

\* The addresses are bytes and the pins are ten, so that the devices a list
\* can name are finitely many.
LEMMA LimitIsNat == IsFiniteSet(Devices) /\ Limit \in Nat
<1> DEFINE T == {Talon(id) : id \in TalonIDs}
           D == {DIO(p) : p \in Pins}
<1>1. IsFiniteSet(TalonIDs) /\ IsFiniteSet(Pins)
  <2>1. ASSUME NEW n \in Nat
        PROVE  IsFiniteSet(0 .. n)
    BY FS_Interval
  <2>2. 255 \in Nat /\ 9 \in Nat
    OBVIOUS
  <2>3. IsFiniteSet(0 .. 255) /\ IsFiniteSet(0 .. 9)
    BY <2>1, <2>2, Zenon
  <2>4. TalonIDs \in SUBSET (0 .. 255) /\ Pins \in SUBSET (0 .. 9)
    BY IDsAssumption
  <2> QED
    BY <2>3, <2>4, FS_Subset
<1>2. IsFiniteSet(T)
  <2> DEFINE f == [id \in TalonIDs |-> Talon(id)]
  <2>1. f \in Surjection(TalonIDs, T)
    BY DEF Surjection
  <2> QED
    BY <1>1, <2>1, FS_Surjection
<1>3. IsFiniteSet(D)
  <2> DEFINE f == [p \in Pins |-> DIO(p)]
  <2>1. f \in Surjection(Pins, D)
    BY DEF Surjection
  <2> QED
    BY <1>1, <2>1, FS_Surjection
<1>4. IsFiniteSet({Rio} \cup T \cup D)
  BY <1>2, <1>3, FS_Union, FS_Singleton
<1> QED
  BY <1>4, FS_CardinalityType DEF Devices, Limit

\* A list without repetitions is no longer than there are devices.
LEMMA ListFits ==
  ASSUME NEW s \in Seq(Devices),
         \A i, j \in DOMAIN s : s[i] = s[j] => i = j
  PROVE  Len(s) \in Nat /\ Len(s) <= Limit
<1>1. Len(s) \in Nat /\ s \in [1 .. Len(s) -> Devices] /\ DOMAIN s = 1 .. Len(s)
  BY LenProperties
<1>2. s \in Injection(1 .. Len(s), Devices)
  BY <1>1 DEF Injection, IsInjective
<1>3. Cardinality(1 .. Len(s)) <= Limit
  BY <1>2, LimitIsNat, FS_Injection DEF Limit
<1>4. Cardinality(1 .. Len(s)) = Len(s)
  BY <1>1, FS_Interval
<1> QED
  BY <1>1, <1>3, <1>4

\* A device that is not on a list is put at its end.
LEMMA PushedList ==
  ASSUME NEW s \in Seq(Devices), NEW d \in Devices,
         \A i, j \in DOMAIN s : s[i] = s[j] => i = j,
         \A i \in DOMAIN s : s[i] # d
  PROVE  /\ Append(s, d) \in Seq(Devices)
         /\ \A i, j \in DOMAIN Append(s, d) :
              Append(s, d)[i] = Append(s, d)[j] => i = j
         /\ \A i \in DOMAIN s : /\ i \in DOMAIN Append(s, d)
                                /\ Append(s, d)[i] = s[i]
         /\ \A e : (\E i \in DOMAIN Append(s, d) : Append(s, d)[i] = e)
                     <=> (\E i \in DOMAIN s : s[i] = e) \/ e = d
<1> DEFINE t == Append(s, d)
<1>1. /\ t \in Seq(Devices) /\ Len(t) = Len(s) + 1
      /\ \A i \in 1 .. Len(s) : t[i] = s[i]
      /\ t[Len(s) + 1] = d
  BY AppendProperties
<1>2. /\ Len(s) \in Nat /\ DOMAIN s = 1 .. Len(s)
      /\ DOMAIN t = 1 .. Len(s) + 1
  BY <1>1, LenProperties
<1> HIDE DEF t
<1>3. \A i, j \in DOMAIN t : t[i] = t[j] => i = j
  <2> SUFFICES ASSUME NEW i \in DOMAIN t, NEW j \in DOMAIN t, t[i] = t[j]
               PROVE  i = j
    OBVIOUS
  <2>1. /\ i \in DOMAIN s \/ i = Len(s) + 1
        /\ j \in DOMAIN s \/ j = Len(s) + 1
    BY <1>2
  <2> QED
    BY <1>1, <1>2, <2>1
<1>4. \A i \in DOMAIN s : i \in DOMAIN t /\ t[i] = s[i]
  BY <1>1, <1>2
<1>5. \A e : (\E i \in DOMAIN t : t[i] = e)
               <=> (\E i \in DOMAIN s : s[i] = e) \/ e = d
  <2> TAKE e
  <2>1. ASSUME NEW i \in DOMAIN t, t[i] = e
        PROVE  (\E k \in DOMAIN s : s[k] = e) \/ e = d
    BY <1>1, <1>2, <2>1
  <2>2. ASSUME NEW i \in DOMAIN s, s[i] = e
        PROVE  \E k \in DOMAIN t : t[k] = e
    BY <1>4, <2>2
  <2>3. Len(s) + 1 \in DOMAIN t /\ t[Len(s) + 1] = d
    BY <1>1, <1>2
  <2> QED
    BY <2>1, <2>2, <2>3
<1> QED
  BY <1>1, <1>3, <1>4, <1>5 DEF t

\* The search finds the one place of a device, and -1 when it has none.
LEMMA SearchFindsPlace ==
  ASSUME NEW s \in Seq(Devices), NEW d \in Devices,
         \A i, j \in DOMAIN s : s[i] = s[j] => i = j
  PROVE  LET r == IndexOfBundleWithID(s, d) IN
           /\ r \in Int /\ r >= -1 /\ r < Len(s)
           /\ r # -1 => r + 1 \in DOMAIN s /\ s[r + 1] = d
           /\ r = -1 => \A i \in DOMAIN s : s[i] # d
<1>1. Len(s) \in Nat /\ DOMAIN s = 1 .. Len(s)
  BY LenProperties
<1> DEFINE I == {i \in 1 .. Len(s) : s[i] = d}
<1>2. IndexOfBundleWithID(s, d) = (IF I # {} THEN Min(I) ELSE 0) - 1
  BY DEF IndexOfBundleWithID, SelectInSeq
<1>3. CASE I = {}
  BY <1>1, <1>2, <1>3
<1>4. ASSUME NEW k \in I
      PROVE  IndexOfBundleWithID(s, d) = k - 1
  <2>1. I = {k}
    BY <1>1, <1>4
  <2>2. Min({k}) = k
    <3>1. k \in Int
      BY <1>1, <1>4
    <3> QED
      BY <3>1 DEF Min
  <2> HIDE DEF I
  <2> QED
    BY <1>2, <2>1, <2>2
<1> QED
  BY <1>1, <1>3, <1>4

\* A device taken from its place leaves the others, in their order.
LEMMA ErasedList ==
  ASSUME NEW s \in Seq(Devices), NEW k \in DOMAIN s,
         \A i, j \in DOMAIN s : s[i] = s[j] => i = j
  PROVE  /\ RemoveAt(s, k) \in Seq(Devices)
         /\ \A i, j \in DOMAIN RemoveAt(s, k) :
              RemoveAt(s, k)[i] = RemoveAt(s, k)[j] => i = j
         /\ \A e : (\E i \in DOMAIN RemoveAt(s, k) : RemoveAt(s, k)[i] = e)
                     <=> (\E i \in DOMAIN s : s[i] = e) /\ e # s[k]
<1> DEFINE n == Len(s)
           a == SubSeq(s, 1, k - 1)
           b == SubSeq(s, k + 1, n)
           t == RemoveAt(s, k)
<1>1. n \in Nat /\ DOMAIN s = 1 .. n /\ k \in 1 .. n
      /\ \A i \in 1 .. n : s[i] \in Devices
  BY LenProperties, ElementOfSeq
<1> HIDE DEF n
<1>2. /\ a \in Seq(Devices) /\ Len(a) = k - 1
      /\ \A i \in 1 .. k - 1 : a[i] = s[i]
  <2>1. k - 1 \in Int /\ \A i \in 1 .. k - 1 : s[i] \in Devices
    BY <1>1
  <2>2. /\ a \in Seq(Devices)
        /\ Len(a) = IF 1 <= k - 1 THEN k - 1 - 1 + 1 ELSE 0
        /\ \A i \in 1 .. k - 1 - 1 + 1 : a[i] = s[1 + i - 1]
    BY <2>1, SubSeqProperties
  <2> HIDE DEF a
  <2> QED
    BY <1>1, <2>2
<1>3. /\ b \in Seq(Devices) /\ Len(b) = n - k
      /\ \A i \in 1 .. n - k : b[i] = s[k + i]
  <2>1. k + 1 \in Int /\ n \in Int /\ \A i \in k + 1 .. n : s[i] \in Devices
    BY <1>1
  <2>2. /\ b \in Seq(Devices)
        /\ Len(b) = IF k + 1 <= n THEN n - (k + 1) + 1 ELSE 0
        /\ \A i \in 1 .. n - (k + 1) + 1 : b[i] = s[(k + 1) + i - 1]
    BY <2>1, SubSeqProperties
  <2> HIDE DEF b
  <2>3. n - (k + 1) + 1 = n - k /\ \A i \in 1 .. n - k : (k + 1) + i - 1 = k + i
    BY <1>1
  <2> QED
    BY <1>1, <2>2, <2>3
<1>4. t = a \o b
  BY DEF RemoveAt, n
<1> HIDE DEF a, b, t
<1>5. /\ t \in Seq(Devices) /\ Len(t) = n - 1 /\ DOMAIN t = 1 .. n - 1
      /\ \A i \in 1 .. n - 1 : t[i] = IF i < k THEN s[i] ELSE s[i + 1]
  <2>1. /\ t \in Seq(Devices) /\ Len(t) = Len(a) + Len(b)
        /\ \A i \in 1 .. Len(a) + Len(b) :
             t[i] = IF i <= Len(a) THEN a[i] ELSE b[i - Len(a)]
    BY <1>2, <1>3, <1>4, ConcatProperties
  <2>2. Len(a) + Len(b) = n - 1
    BY <1>1, <1>2, <1>3
  <2>3. DOMAIN t = 1 .. n - 1
    BY <2>1, <2>2, LenProperties
  <2>4. ASSUME NEW i \in 1 .. n - 1
        PROVE  t[i] = IF i < k THEN s[i] ELSE s[i + 1]
    <3>1. t[i] = IF i <= k - 1 THEN a[i] ELSE b[i - (k - 1)]
      BY <1>2, <2>1, <2>2
    <3>2. CASE i < k
      BY <1>1, <1>2, <3>1, <3>2
    <3>3. CASE ~(i < k)
      <4>1. i - (k - 1) \in 1 .. n - k /\ k + (i - (k - 1)) = i + 1
        BY <1>1, <3>3
      <4>2. b[i - (k - 1)] = s[k + (i - (k - 1))]
        BY <1>3, <4>1
      <4>3. ~(i <= k - 1)
        BY <1>1, <3>3
      <4> QED
        BY <3>1, <3>3, <4>1, <4>2, <4>3
    <3> QED
      BY <3>2, <3>3
  <2> QED
    BY <2>1, <2>2, <2>3, <2>4
<1>6. \A i, j \in DOMAIN t : t[i] = t[j] => i = j
  <2> SUFFICES ASSUME NEW i \in DOMAIN t, NEW j \in DOMAIN t, t[i] = t[j]
               PROVE  i = j
    OBVIOUS
  <2> DEFINE from(l) == IF l < k THEN l ELSE l + 1
  <2>1. /\ from(i) \in DOMAIN s /\ t[i] = s[from(i)]
        /\ from(j) \in DOMAIN s /\ t[j] = s[from(j)]
    BY <1>1, <1>5
  <2>2. from(i) = from(j)
    <3> HIDE DEF from
    <3> QED
      BY <2>1
  <2> QED
    BY <1>1, <1>5, <2>2
<1>7. \A e : (\E i \in DOMAIN t : t[i] = e)
               <=> (\E i \in DOMAIN s : s[i] = e) /\ e # s[k]
  <2> TAKE e
  <2>1. ASSUME NEW i \in DOMAIN t, t[i] = e
        PROVE  (\E j \in DOMAIN s : s[j] = e) /\ e # s[k]
    <3> DEFINE j == IF i < k THEN i ELSE i + 1
    <3>1. j \in 1 .. n /\ j # k /\ s[j] = e
      BY <1>1, <1>5, <2>1
    <3> QED
      BY <1>1, <3>1
  <2>2. ASSUME NEW j \in DOMAIN s, s[j] = e, e # s[k]
        PROVE  \E i \in DOMAIN t : t[i] = e
    <3> DEFINE i == IF j < k THEN j ELSE j - 1
    <3>1. j # k /\ i \in 1 .. n - 1
      BY <1>1, <2>2
    <3>2. t[i] = e
      BY <1>1, <1>5, <2>2, <3>1
    <3> QED
      BY <1>5, <3>1, <3>2
  <2> QED
    BY <2>1, <2>2
<1> QED
  BY <1>5, <1>6, <1>7 DEF t

-----------------------------------------------------------------------------
(* The menus.                                                               *)

\* The menus are the three that loop and those of the settings.
LEMMA MenuNames ==
  /\ DOMAIN Menus = {"Root", "Set", "Get"} \cup Settings
  /\ Settings \cap {"Root", "Set", "Get"} = {}
  /\ Menus["Root"] = RootFunctions /\ Menus["Set"] = SetFunctions
  /\ Menus["Get"] = <<"GetTalonRegistors", "GetDIO_Pin">>
  /\ \A m \in DOMAIN SensorMenus : Menus[m] = SensorMenus[m]
  /\ \A m \in DOMAIN ModeMenus : Menus[m] = ModeMenus[m]
<1>1. /\ DOMAIN SensorMenus \cap DOMAIN ModeMenus = {}
      /\ {"Root", "Set", "Get"} \cap (DOMAIN SensorMenus \cup DOMAIN ModeMenus) = {}
  BY DEF SensorMenus, ModeMenus
<1>2. /\ Looping["Root"] = RootFunctions /\ Looping["Set"] = SetFunctions
      /\ Looping["Get"] = <<"GetTalonRegistors", "GetDIO_Pin">>
  BY DEF Looping
<1> QED
  BY <1>1, <1>2 DEF Menus, Settings, Loops

\* No setting's menu leads to another menu or to a pair of settings.
LEMMA SettingsEnd ==
  ASSUME NEW m \in Settings, NEW i \in DOMAIN Menus[m]
  PROVE  Menus[m][i] \notin DOMAIN Menus \cup DOMAIN OneSide
<1>1. CASE m \in DOMAIN SensorMenus
  <2>1. Menus[m] = SensorMenus[m]
    BY <1>1, MenuNames
  <2> QED
    BY <1>1, <2>1, MenuNames DEF SensorMenus, ModeMenus, Settings, OneSide
<1>2. CASE m \in DOMAIN ModeMenus
  <2>1. Menus[m] = ModeMenus[m]
    BY <1>2, MenuNames
  <2> QED
    BY <1>2, <2>1, MenuNames DEF SensorMenus, ModeMenus, Settings, OneSide
<1> QED
  BY <1>1, <1>2 DEF Settings

\* The root menu leads to "Set" and "Get", and "Set" to a setting's menu; only
\* "Set" asks for one side of a pair.
LEMMA MenuEntries ==
  ASSUME NEW m \in DOMAIN Menus, NEW i \in Offered(m)
  PROVE  LET f == Menus[m][i] IN
           /\ f \in DOMAIN Menus => \/ m = "Root" /\ f \in {"Set", "Get"}
                                    \/ m = "Set" /\ f \in Settings
           /\ f \in DOMAIN OneSide => m = "Set" /\ f = SetFunctions[i]
<1> DEFINE f == Menus[m][i]
<1>1. CASE m = "Root"
  <2>1. i \in 1 .. 6 /\ f = RootFunctions[i]
    BY <1>1, MenuNames DEF Offered, RootFunctions
  <2>2. f \notin Settings \cup {"Root"} /\ f \notin DOMAIN OneSide
    BY <2>1 DEF RootFunctions, Settings, SensorMenus, ModeMenus, OneSide
  <2> QED
    BY <1>1, <2>2, MenuNames
<1>2. CASE m = "Set"
  <2>1. i \in 1 .. 30 /\ f = SetFunctions[i]
    BY <1>2, MenuNames, BdcAssumption DEF Offered
  <2>2. f \notin {"Root", "Set", "Get"}
    BY <2>1 DEF SetFunctions
  <2> QED
    BY <1>2, <2>1, <2>2, MenuNames
<1>3. CASE m = "Get"
  <2>1. f \in {"GetTalonRegistors", "GetDIO_Pin"}
    BY <1>3, MenuNames DEF Offered
  <2>2. f \notin DOMAIN Menus /\ f \notin DOMAIN OneSide
    BY <2>1, MenuNames DEF Settings, SensorMenus, ModeMenus, OneSide
  <2> QED
    BY <2>2
<1>4. CASE m \in Settings
  BY <1>4, SettingsEnd, MenuNames DEF Offered
<1> QED
  BY <1>1, <1>2, <1>3, <1>4, MenuNames

\* What Append makes of short sequences.
LEMMA OneMore ==
  ASSUME NEW a, NEW b, NEW c
  PROVE  Append(<<a>>, b) = <<a, b>> /\ Append(<<a, b>>, c) = <<a, b, c>>
<1> DEFINE S == {a, b, c}
<1>1. /\ <<a>> \in Seq(S) /\ <<a, b>> \in Seq(S) /\ <<a, b, c>> \in Seq(S)
      /\ b \in S /\ c \in S
  OBVIOUS
<1> HIDE DEF S
<1>2. Append(<<a>>, b) = <<a, b>>
  <2> DEFINE s == <<a>>
             t == Append(s, b)
             u == <<a, b>>
  <2>1. Len(s) = 1 /\ s[1] = a /\ Len(u) = 2 /\ u[1] = a /\ u[2] = b
    OBVIOUS
  <2>2. /\ t \in Seq(S) /\ Len(t) = Len(s) + 1
        /\ \A i \in 1 .. Len(s) : t[i] = s[i]
        /\ t[Len(s) + 1] = b
    BY <1>1, AppendProperties
  <2> HIDE DEF s, t, u
  <2>3. Len(t) = 2 /\ t[1] = a /\ t[2] = b
    BY <2>1, <2>2
  <2>4. \A i \in 1 .. Len(t) : t[i] = u[i]
    BY <2>1, <2>3
  <2>5. t = u
    BY <1>1, <2>1, <2>2, <2>3, <2>4, SeqEqual DEF u
  <2> QED
    BY <2>5 DEF s, t, u
<1>3. Append(<<a, b>>, c) = <<a, b, c>>
  <2> DEFINE s == <<a, b>>
             t == Append(s, c)
             u == <<a, b, c>>
  <2>1. /\ Len(s) = 2 /\ s[1] = a /\ s[2] = b
        /\ Len(u) = 3 /\ u[1] = a /\ u[2] = b /\ u[3] = c
    OBVIOUS
  <2>2. /\ t \in Seq(S) /\ Len(t) = Len(s) + 1
        /\ \A i \in 1 .. Len(s) : t[i] = s[i]
        /\ t[Len(s) + 1] = c
    BY <1>1, AppendProperties
  <2> HIDE DEF s, t, u
  <2>3. Len(t) = 3 /\ t[1] = a /\ t[2] = b /\ t[3] = c
    BY <2>1, <2>2
  <2>4. \A i \in 1 .. Len(t) : t[i] = u[i]
    BY <2>1, <2>3
  <2>5. t = u
    BY <1>1, <2>1, <2>2, <2>3, <2>4, SeqEqual DEF u
  <2> QED
    BY <2>5 DEF s, t, u
<1> QED
  BY <1>2, <1>3

\* What Front makes of short sequences.
LEMMA FirstElements ==
  ASSUME NEW a, NEW b, NEW c
  PROVE  SubSeq(<<a, b>>, 1, 1) = <<a>> /\ SubSeq(<<a, b, c>>, 1, 2) = <<a, b>>
<1> DEFINE S == {a, b, c}
<1>1. SubSeq(<<a, b>>, 1, 1) = <<a>>
  <2> DEFINE s == <<a, b>>
             t == SubSeq(s, 1, 1)
  <2>1. \A i \in 1 .. 1 : s[i] \in S
    OBVIOUS
  <2>2. /\ t \in Seq(S) /\ Len(t) = IF 1 <= 1 THEN 1 - 1 + 1 ELSE 0
        /\ \A i \in 1 .. 1 - 1 + 1 : t[i] = s[1 + i - 1]
    BY <2>1, SubSeqProperties
  <2>3. s[1] = a /\ <<a>> \in Seq(S) /\ Len(<<a>>) = 1 /\ <<a>>[1] = a
    OBVIOUS
  <2> HIDE DEF s, t, S
  <2>4. Len(t) = 1 /\ t[1] = a
    BY <2>2, <2>3
  <2>5. \A i \in 1 .. Len(t) : t[i] = <<a>>[i]
    BY <2>3, <2>4
  <2> QED
    BY <2>2, <2>3, <2>4, <2>5, SeqEqual DEF t, s
<1>2. SubSeq(<<a, b, c>>, 1, 2) = <<a, b>>
  <2> DEFINE s == <<a, b, c>>
             t == SubSeq(s, 1, 2)
             u == <<a, b>>
  <2>1. \A i \in 1 .. 2 : s[i] \in S
    OBVIOUS
  <2>2. /\ t \in Seq(S) /\ Len(t) = IF 1 <= 2 THEN 2 - 1 + 1 ELSE 0
        /\ \A i \in 1 .. 2 - 1 + 1 : t[i] = s[1 + i - 1]
    BY <2>1, SubSeqProperties
  <2>3. /\ s[1] = a /\ s[2] = b /\ u \in Seq(S) /\ Len(u) = 2
        /\ u[1] = a /\ u[2] = b
    OBVIOUS
  <2> HIDE DEF s, t, u, S
  <2>4. Len(t) = 2 /\ t[1] = a /\ t[2] = b
    BY <2>2, <2>3
  <2>5. \A i \in 1 .. Len(t) : t[i] = u[i]
    BY <2>3, <2>4
  <2>6. t = u
    BY <2>2, <2>3, <2>4, <2>5, SeqEqual
  <2> QED
    BY <2>6 DEF t, s, u
<1> QED
  BY <1>1, <1>2

\* Going back from a menu and going on to one stays on a path.
LEMMA PathSteps ==
  ASSUME NEW p \in Paths, p # <<>>
  PROVE  /\ Last(p) \in DOMAIN Menus
         /\ Len(p) > 1 \/ Last(p) \notin Loops => Front(p) \in Paths \ {<<>>}
         /\ Last(p) = "Root" =>
              \A m \in {"Set", "Get"} : Append(p, m) \in Paths \ {<<>>}
         /\ Last(p) = "Set" => \A m \in Settings : Append(p, m) \in Paths \ {<<>>}
<1>1. CASE p = <<"Root">>
  <2>1. Len(p) = 1 /\ Last(p) = "Root"
    BY <1>1 DEF Last
  <2>2. \A m : Append(p, m) = <<"Root", m>>
    BY <1>1, OneMore
  <2> QED
    BY <2>1, <2>2, MenuNames DEF Paths, Loops
<1>2. ASSUME NEW m \in {"Set", "Get"}, p = <<"Root", m>>
      PROVE  /\ Last(p) = m /\ Front(p) = <<"Root">>
             /\ \A n : Append(p, n) = <<"Root", m, n>>
  <2>1. Len(p) = 2 /\ Last(p) = m
    BY <1>2 DEF Last
  <2>2. \A n : Append(p, n) = <<"Root", m, n>>
    BY <1>2, OneMore
  <2>3. SubSeq(p, 1, 1) = <<"Root">>
    BY <1>2, FirstElements
  <2> QED
    BY <2>1, <2>2, <2>3 DEF Front
<1>3. ASSUME NEW m \in Settings, p = <<"Root", "Set", m>>
      PROVE  Last(p) = m /\ Front(p) = <<"Root", "Set">>
  <2>1. Len(p) = 3 /\ Last(p) = m
    BY <1>3 DEF Last
  <2>2. SubSeq(p, 1, 2) = <<"Root", "Set">>
    BY <1>3, FirstElements
  <2> QED
    BY <2>1, <2>2 DEF Front
<1> QED
  BY <1>1, <1>2, <1>3, MenuNames DEF Paths

\* At most three menus are open.
LEMMA PathTypes ==
  ASSUME NEW p \in Paths
  PROVE  Len(p) \in 0 .. 3 /\ ToSet(p) \subseteq DOMAIN Menus
  BY MenuNames DEF Paths, ToSet

-----------------------------------------------------------------------------
(* The devices and what exists of them.                                     *)

\* A device is told by its type and its ID, and is neither Unset nor Lost.
LEMMA DeviceKinds ==
  /\ Rio \in Devices /\ \A id \in TalonIDs : Talon(id) \in Devices
  /\ \A p \in Pins : DIO(p) \in Devices
  /\ \A d \in Devices :
       /\ d.type \in {"Talon", "DIO", "RoboRIO"} /\ d \notin {Unset, Lost}
       /\ d.type = "Talon" => d.ID \in TalonIDs /\ d = Talon(d.ID)
       /\ d.type = "DIO" => d.ID \in Pins /\ d = DIO(d.ID)
       /\ d.type = "RoboRIO" => d = Rio
  /\ \A n : Talon(n).type = "Talon" /\ Talon(n).ID = n
  /\ \A n : DIO(n).type = "DIO" /\ DIO(n).ID = n
  /\ Rio.type = "RoboRIO"
<1>1. \A d \in Devices : \/ d = Rio \/ \E id \in TalonIDs : d = Talon(id)
                         \/ \E p \in Pins : d = DIO(p)
  BY DEF Devices
<1>2. \A n : Talon(n).type = "Talon" /\ Talon(n).ID = n
  BY DEF Talon
<1>3. \A n : DIO(n).type = "DIO" /\ DIO(n).ID = n
  BY DEF DIO
<1>4. Rio.type = "RoboRIO" /\ Unset.type = "unset" /\ Lost.type = "lost"
  BY DEF Rio, Unset, Lost
<1> QED
  BY <1>1, <1>2, <1>3, <1>4 DEF Devices

\* A change is told by what it does and to which device.
LEMMA ChangeKinds ==
  /\ \A d, e : (Push(d) = Push(e) => d = e) /\ (Erase(d) = Erase(e) => d = e)
  /\ \A d, e : Push(d) # Erase(e) /\ Push(d) # NoChange /\ Erase(d) # NoChange
  /\ \A d : /\ Push(d).op = "push_back" /\ Push(d).device = d
            /\ Erase(d).op = "erase" /\ Erase(d).device = d
<1>1. \A d : /\ Push(d).op = "push_back" /\ Push(d).device = d
             /\ Erase(d).op = "erase" /\ Erase(d).device = d
  BY DEF Push, Erase
<1>2. NoChange.op = "none"
  BY DEF NoChange
<1> QED
  BY <1>1, <1>2

\* The bench tool starts with nothing created and no menu open.
LEMMA BdcInvInit == Init => BdcInv
<1> SUFFICES ASSUME Init
             PROVE  BdcInv
  OBVIOUS
<1>1. GrapherTypeOK
  <2>1. graphable \in Seq(Devices) /\ deviceList \in Lists
    BY DEF Init, GrapherInit, Lists, NoList
  <2>2. index \in -1 .. Limit
    BY LimitIsNat DEF Init, GrapherInit
  <2>3. pinUse \in [Pins -> {"none", "input", "output"}]
    BY DEF Init, GrapherInit
  <2>4. Subscriptions \in [Slots -> [device : Devices \cup {Unset},
                                    Bundle : Devices \cup {Unset, Lost}]]
    BY DEF Init, GrapherInit
  <2> QED
    BY <2>1, <2>2, <2>3, <2>4 DEF Init, GrapherInit, GrapherTypeOK
<1>2. BdcTypeOK
  <2>1. Len(menus) \in 0 .. 3 /\ ToSet(menus) \subseteq DOMAIN Menus
    BY PathTypes DEF Init, Paths
  <2>2. tempvars \in [Sides -> Values \cup {0}]
    BY DEF Init
  <2>3. selected \in Seq(TalonIDs) /\ Len(selected) <= MaxSelected
    BY BdcAssumption DEF Init
  <2>4. Len(calls) \in 0 .. 2
    BY DEF Init
  <2>5. /\ program \in {"waiting", "autonomous", "operator", "exited"}
        /\ asking \in Asking \cup {"none"} /\ entry \in 0 .. 30
    BY DEF Init
  <2>6. pulsing \in BOOLEAN
    BY Zenon DEF Init
  <2> QED
    BY <1>1, <2>1, <2>2, <2>3, <2>4, <2>5, <2>6 DEF BdcTypeOK
<1>3. OnePlaceEach /\ ListsWhatExists /\ ChangeIsDue
  BY ChangeKinds, DeviceKinds
  DEF Init, GrapherInit, OnePlaceEach, ListsWhatExists, ChangeIsDue, Exists
<1>4. FoundInPlace /\ BundlesAreLive
  BY DEF Init, GrapherInit, FoundInPlace, BundlesAreLive
<1>5. MenusFollowOnePath /\ OneThingAtATime
  BY DEF Init, GrapherInit, MenusFollowOnePath, Paths, OneThingAtATime
<1>6. AskedByEntry
  BY DEF Init, AskedByEntry, OneSide
<1> QED
  BY <1>2, <1>3, <1>4, <1>5, <1>6 DEF BdcInv

\* The end of a change makes the list what it ought to be.
LEMMA ChangedList ==
  ASSUME BdcInv, change # NoChange
  PROVE  /\ Changed \in Seq(Devices)
         /\ \A i, j \in DOMAIN Changed : Changed[i] = Changed[j] => i = j
         /\ \A d \in Devices :
              (\E i \in DOMAIN Changed : Changed[i] = d) <=> Exists(d)
         /\ change.op # "erase" =>
              \A i \in DOMAIN graphable : /\ i \in DOMAIN Changed
                                          /\ Changed[i] = graphable[i]
<1>1. /\ graphable \in Seq(Devices)
      /\ \A i, j \in DOMAIN graphable : graphable[i] = graphable[j] => i = j
  BY DEF BdcInv, BdcTypeOK, GrapherTypeOK, OnePlaceEach
<1>2. (\E d \in Devices : change = Push(d)) \/ (\E d \in Devices : change = Erase(d))
  BY DEF BdcInv, BdcTypeOK, GrapherTypeOK
<1>3. \A d \in Devices :
        (\E i \in DOMAIN graphable : graphable[i] = d)
          <=> \/ Exists(d) /\ change # Push(d)
              \/ ~Exists(d) /\ change = Erase(d)
  BY DEF BdcInv, ListsWhatExists
<1>4. ASSUME NEW d \in Devices, change = Push(d)
      PROVE  /\ change.op = "push_back" /\ Changed = Append(graphable, d)
             /\ \A e \in Devices : (\E i \in DOMAIN graphable : graphable[i] = e)
                                     <=> Exists(e) /\ e # d
             /\ Exists(d)
  <2>1. change.op = "push_back" /\ change.device = d
    BY <1>4, ChangeKinds
  <2>2. Exists(d)
    BY <1>4 DEF BdcInv, ChangeIsDue
  <2> QED
    BY <1>3, <1>4, <2>1, <2>2, ChangeKinds DEF Changed
<1>5. ASSUME NEW d \in Devices, change = Erase(d)
      PROVE  /\ change.op = "erase" /\ ~Exists(d)
             /\ Changed =
                  RemoveAt(graphable, IndexOfBundleWithID(graphable, d) + 1)
             /\ \A e \in Devices : (\E i \in DOMAIN graphable : graphable[i] = e)
                                     <=> Exists(e) \/ e = d
  <2>1. change.op = "erase" /\ change.device = d
    BY <1>5, ChangeKinds
  <2>2. ~Exists(d)
    BY <1>5 DEF BdcInv, ChangeIsDue
  <2> QED
    BY <1>3, <1>5, <2>1, <2>2, ChangeKinds DEF Changed
<1>6. ASSUME NEW d \in Devices, change = Push(d)
      PROVE  /\ Changed \in Seq(Devices)
             /\ \A i, j \in DOMAIN Changed : Changed[i] = Changed[j] => i = j
             /\ \A e \in Devices :
                  (\E i \in DOMAIN Changed : Changed[i] = e) <=> Exists(e)
             /\ \A i \in DOMAIN graphable : /\ i \in DOMAIN Changed
                                            /\ Changed[i] = graphable[i]
  <2>1. \A i \in DOMAIN graphable : graphable[i] # d
    BY <1>4, <1>6
  <2>2. /\ Changed \in Seq(Devices)
        /\ \A i, j \in DOMAIN Changed : Changed[i] = Changed[j] => i = j
        /\ \A i \in DOMAIN graphable : /\ i \in DOMAIN Changed
                                       /\ Changed[i] = graphable[i]
        /\ \A e : (\E i \in DOMAIN Changed : Changed[i] = e)
                    <=> (\E i \in DOMAIN graphable : graphable[i] = e) \/ e = d
    BY <1>1, <1>4, <1>6, <2>1, PushedList
  <2> QED
    BY <1>4, <1>6, <2>2
<1>7. ASSUME NEW d \in Devices, change = Erase(d)
      PROVE  /\ Changed \in Seq(Devices)
             /\ \A i, j \in DOMAIN Changed : Changed[i] = Changed[j] => i = j
             /\ \A e \in Devices :
                  (\E i \in DOMAIN Changed : Changed[i] = e) <=> Exists(e)
  <2>1. PICK k \in DOMAIN graphable :
          k = IndexOfBundleWithID(graphable, d) + 1 /\ graphable[k] = d
    <3>1. \E i \in DOMAIN graphable : graphable[i] = d
      BY <1>5, <1>7
    <3> QED
      BY <1>1, <3>1, SearchFindsPlace
  <2>2. Changed = RemoveAt(graphable, k)
    BY <1>5, <1>7, <2>1
  <2>3. /\ RemoveAt(graphable, k) \in Seq(Devices)
        /\ \A i, j \in DOMAIN RemoveAt(graphable, k) :
             RemoveAt(graphable, k)[i] = RemoveAt(graphable, k)[j] => i = j
        /\ \A e : (\E i \in DOMAIN RemoveAt(graphable, k) :
                      RemoveAt(graphable, k)[i] = e)
                    <=> /\ \E i \in DOMAIN graphable : graphable[i] = e
                        /\ e # graphable[k]
    BY <1>1, ErasedList
  <2> QED
    BY <1>5, <1>7, <2>1, <2>2, <2>3
<1> QED
  BY <1>2, <1>4, <1>5, <1>6, <1>7

-----------------------------------------------------------------------------
(* The steps.                                                               *)

\* Nothing else touches the vector or what exists.
LEMMA OtherSteps ==
  ASSUME Next,
         ~RunChange, ~ThreadStarts, \A id \in TalonIDs : ~ChangeTalons(id),
         \A pin \in Pins : ~GetDIO_Pin(pin) /\ ~SetDIO_Pin(pin)
  PROVE  /\ UNCHANGED <<graphable, allTalons, pinUse, change>>
         /\ (thread = "start") = (thread' = "start")
<1>1. CASE Console
  BY <1>1 DEF Console, Autonomous, AutonomousEnds, OperatorControl, Choose, Back,
    Exit, PulseEnds, Escape, EnterValue, EnterSide, SetCommandedValue,
    PulseCommandedValue, shared, own
<1>2. CASE RunThread
  BY <1>2 DEF RunThread, GrapherThread, CountDevices, SendDeviceList, NoMessage,
    DeviceListRequest, UpdateSubscription, BindSubscription, Sample, shared
<1> QED
  BY <1>1, <1>2 DEF Next

\* The vector and what exists stay in step: a request creates or deletes one
\* object and owes one change, and the end of the change pays it.
LEMMA ListStep ==
  ASSUME BdcInv, Next
  PROVE  OnePlaceEach' /\ ListsWhatExists' /\ ChangeIsDue'
<1>1. /\ OnePlaceEach /\ ListsWhatExists /\ ChangeIsDue
      /\ graphable \in Seq(Devices)
      /\ \A i, j \in DOMAIN graphable : graphable[i] = graphable[j] => i = j
      /\ pinUse \in [Pins -> {"none", "input", "output"}]
  BY DEF BdcInv, OnePlaceEach, BdcTypeOK, GrapherTypeOK
<1>2. CASE ThreadStarts
  <2>1. change = NoChange /\ ~Exists(Rio)
    BY <1>2, DeviceKinds
    DEF ThreadStarts, BdcInv, OneThingAtATime, Exists
  <2>2. \A i \in DOMAIN graphable : graphable[i] # Rio
    BY <1>1, <2>1, DeviceKinds, ChangeKinds DEF ListsWhatExists
  <2>3. /\ graphable' = Append(graphable, Rio) /\ thread' # "start"
        /\ UNCHANGED <<allTalons, pinUse, change>>
    BY <1>2 DEF ThreadStarts
  <2>4. /\ \A i, j \in DOMAIN graphable' : graphable'[i] = graphable'[j] => i = j
        /\ \A e : (\E i \in DOMAIN graphable' : graphable'[i] = e)
                    <=> (\E i \in DOMAIN graphable : graphable[i] = e) \/ e = Rio
    BY <1>1, <2>2, <2>3, DeviceKinds, PushedList
  <2>5. \A d \in Devices : Exists(d)' <=> Exists(d) \/ d = Rio
    BY <1>2, <2>3, DeviceKinds DEF Exists
  <2>6. \A d \in Devices : (\E i \in DOMAIN graphable : graphable[i] = d)
                             <=> Exists(d)
    BY <1>1, <2>1, ChangeKinds DEF ListsWhatExists
  <2>7. \A d : change' # Push(d) /\ change' # Erase(d)
    BY <2>1, <2>3, ChangeKinds
  <2> QED
    BY <2>4, <2>5, <2>6, <2>7 DEF OnePlaceEach, ListsWhatExists, ChangeIsDue
<1>3. CASE RunChange
  <2>1. /\ change # NoChange /\ change' = NoChange /\ graphable' = Changed
        /\ UNCHANGED <<allTalons, pinUse, thread>>
    BY <1>3 DEF RunChange, EndChange, own
  <2>2. /\ \A i, j \in DOMAIN graphable' : graphable'[i] = graphable'[j] => i = j
        /\ \A d \in Devices :
             (\E i \in DOMAIN graphable' : graphable'[i] = d) <=> Exists(d)
    BY <2>1, ChangedList
  <2>3. \A d \in Devices : Exists(d)' <=> Exists(d)
    BY <2>1 DEF Exists
  <2>4. \A d : change' # Push(d) /\ change' # Erase(d)
    BY <2>1, ChangeKinds
  <2> QED
    BY <2>2, <2>3, <2>4 DEF OnePlaceEach, ListsWhatExists, ChangeIsDue
\* A request of the operator finds no change under way.
<1>4. ASSUME change = NoChange, UNCHANGED graphable,
             NEW d \in Devices,
             \/ change' = NoChange /\ \A e \in Devices : Exists(e)' <=> Exists(e)
             \/ /\ change' = Push(d) /\ ~Exists(d)
                /\ \A e \in Devices : Exists(e)' <=> Exists(e) \/ e = d
             \/ /\ change' = Erase(d) /\ Exists(d)
                /\ \A e \in Devices : Exists(e)' <=> Exists(e) /\ e # d
      PROVE  OnePlaceEach' /\ ListsWhatExists' /\ ChangeIsDue'
  <2>1. OnePlaceEach'
    BY <1>1, <1>4 DEF OnePlaceEach
  <2>2. \A e \in Devices : (\E i \in DOMAIN graphable' : graphable'[i] = e)
                             <=> Exists(e)
    BY <1>1, <1>4, ChangeKinds DEF ListsWhatExists
  <2>3. \A e \in Devices :
          /\ Exists(e) <=> \/ Exists(e)' /\ change' # Push(e)
                           \/ ~Exists(e)' /\ change' = Erase(e)
          /\ change' = Push(e) => Exists(e)'
          /\ change' = Erase(e) => ~Exists(e)'
    <3> TAKE e \in Devices
    <3> QED
      BY <1>4, ChangeKinds
  <2> QED
    BY <2>1, <2>2, <2>3 DEF ListsWhatExists, ChangeIsDue
<1>5. ASSUME NEW f, asking = f, f # "none"
      PROVE  change = NoChange
  BY <1>5 DEF BdcInv, OneThingAtATime
<1>6. ASSUME NEW id \in TalonIDs, ChangeTalons(id)
      PROVE  OnePlaceEach' /\ ListsWhatExists' /\ ChangeIsDue'
  <2>1. /\ change = NoChange /\ UNCHANGED <<graphable, pinUse, thread>>
        /\ allTalons' = allTalons \cup {id}
        /\ change' = IF id \in allTalons THEN NoChange ELSE Push(Talon(id))
    BY <1>5, <1>6 DEF ChangeTalons, AtQuestion, PossiblyCreateTalon, own
  <2>2. Talon(id) \in Devices /\ (Exists(Talon(id)) <=> id \in allTalons)
    BY DeviceKinds DEF Exists
  <2>3. \A e \in Devices : Exists(e)' <=> Exists(e) \/ e = Talon(id)
    BY <2>1, DeviceKinds DEF Exists
  <2> QED
    BY <1>4, <2>1, <2>2, <2>3
<1>7. ASSUME NEW pin \in Pins, GetDIO_Pin(pin)
      PROVE  OnePlaceEach' /\ ListsWhatExists' /\ ChangeIsDue'
  <2>1. /\ change = NoChange /\ UNCHANGED <<graphable, allTalons, thread>>
        /\ pinUse' = [pinUse EXCEPT ![pin] = "input"]
        /\ change' = IF pinUse[pin] = "input" THEN NoChange ELSE Push(DIO(pin))
    BY <1>5, <1>7 DEF GetDIO_Pin, AtQuestion, PossiblyCreateDigitalInput, own
  <2>2. DIO(pin) \in Devices /\ (Exists(DIO(pin)) <=> pinUse[pin] = "input")
    BY DeviceKinds DEF Exists
  <2>3. \A p \in Pins : pinUse'[p] = IF p = pin THEN "input" ELSE pinUse[p]
    BY <1>1, <2>1
  <2>4. \A e \in Devices : Exists(e)' <=> Exists(e) \/ e = DIO(pin)
    BY <2>1, <2>3, DeviceKinds DEF Exists
  <2> QED
    BY <1>4, <2>1, <2>2, <2>4
<1>8. ASSUME NEW pin \in Pins, SetDIO_Pin(pin)
      PROVE  OnePlaceEach' /\ ListsWhatExists' /\ ChangeIsDue'
  <2>1. /\ change = NoChange /\ UNCHANGED <<graphable, allTalons, thread>>
        /\ pinUse' = [pinUse EXCEPT ![pin] = "output"]
        /\ change' = IF pinUse[pin] = "input" THEN Erase(DIO(pin)) ELSE NoChange
    BY <1>5, <1>8 DEF SetDIO_Pin, AtQuestion, PossiblyCreateDigitalOutput, own
  <2>2. DIO(pin) \in Devices /\ (Exists(DIO(pin)) <=> pinUse[pin] = "input")
    BY DeviceKinds DEF Exists
  <2>3. \A p \in Pins : pinUse'[p] = IF p = pin THEN "output" ELSE pinUse[p]
    BY <1>1, <2>1
  <2>4. \A e \in Devices : Exists(e)' <=> Exists(e) /\ e # DIO(pin)
    BY <2>1, <2>3, DeviceKinds DEF Exists
  <2> QED
    BY <1>4, <2>1, <2>2, <2>4
<1>9. CASE /\ ~RunChange /\ ~ThreadStarts
           /\ \A id \in TalonIDs : ~ChangeTalons(id)
           /\ \A pin \in Pins : ~GetDIO_Pin(pin) /\ ~SetDIO_Pin(pin)
  BY <1>1, <1>9, OtherSteps
  DEF OnePlaceEach, ListsWhatExists, ChangeIsDue, Exists
<1> QED
  BY <1>2, <1>3, <1>6, <1>7, <1>8, <1>9

\* The thread's steps that neither subscribe to a device nor fetch one.
LEMMA PassingSteps ==
  ASSUME Next,
         ~RunChange, ~ThreadStarts, ~BindSubscription,
         \A id \in TalonIDs : ~ChangeTalons(id),
         \A pin \in Pins : ~GetDIO_Pin(pin) /\ ~SetDIO_Pin(pin),
         \A s \in Slots, d \in Devices : ~UpdateSubscription(s, d)
  PROVE  /\ UNCHANGED <<graphable, allTalons, pinUse, index, binding, suspect,
                        Subscriptions>>
         /\ \/ UNCHANGED thread
            \/ thread \notin {"start", "bind"} /\ thread' \notin {"start", "bind"}
<1>1. CASE Console
  BY <1>1 DEF Console, Autonomous, AutonomousEnds, OperatorControl, Choose, Back,
    Exit, PulseEnds, Escape, EnterValue, EnterSide, SetCommandedValue,
    PulseCommandedValue, shared, own
<1>2. CASE RunThread
  BY <1>2 DEF RunThread, GrapherThread, CountDevices, SendDeviceList, NoMessage,
    DeviceListRequest, Sample, shared
<1> QED
  BY <1>1, <1>2 DEF Next

\* What a subscription has found or fetched stays right, or it becomes suspect.
LEMMA BindStep ==
  ASSUME BdcInv, Next
  PROVE  FoundInPlace' /\ BundlesAreLive'
<1>1. /\ FoundInPlace /\ BundlesAreLive
      /\ graphable \in Seq(Devices)
      /\ \A i, j \in DOMAIN graphable : graphable[i] = graphable[j] => i = j
      /\ \A d \in Devices :
           (\E i \in DOMAIN graphable : graphable[i] = d)
             <=> \/ Exists(d) /\ change # Push(d)
                 \/ ~Exists(d) /\ change = Erase(d)
      /\ pinUse \in [Pins -> {"none", "input", "output"}]
      /\ suspect \subseteq Slots /\ binding \in Slots
      /\ index \in -1 .. Limit
      /\ Subscriptions \in [Slots -> [device : Devices \cup {Unset},
                                      Bundle : Devices \cup {Unset, Lost}]]
  BY DEF BdcInv, BdcTypeOK, GrapherTypeOK, OnePlaceEach, ListsWhatExists
<1>2. \A s \in Slots \ suspect :
        Subscriptions[s].Bundle # Unset /\ ~(thread = "bind" /\ binding = s) =>
          /\ Subscriptions[s].Bundle \in Devices
          /\ Subscriptions[s].Bundle = Subscriptions[s].device
          /\ Exists(Subscriptions[s].Bundle)
  <2> SUFFICES ASSUME NEW s \in Slots \ suspect, Subscriptions[s].Bundle # Unset,
                      ~(thread = "bind" /\ binding = s)
               PROVE  /\ Subscriptions[s].Bundle \in Devices
                      /\ Subscriptions[s].Bundle = Subscriptions[s].device
                      /\ Exists(Subscriptions[s].Bundle)
    OBVIOUS
  <2>1. /\ Subscriptions[s].Bundle = Subscriptions[s].device
        /\ Exists(Subscriptions[s].Bundle)
    BY <1>1 DEF BundlesAreLive
  <2>2. Subscriptions[s].Bundle \in Devices \cup {Unset, Lost}
    BY <1>1
  <2>3. ~Exists(Lost)
    BY DEF Exists, Lost
  <2> QED
    BY <2>1, <2>2, <2>3
\* A step that subscribes to nothing keeps the objects that still exist.
<1>3. ASSUME UNCHANGED <<Subscriptions, binding>>, suspect \subseteq suspect',
             thread' = "bind" <=> thread = "bind",
             \A s \in Slots \ suspect' :
               Subscriptions[s].Bundle \in Devices /\ Exists(Subscriptions[s].Bundle)
                 => Exists(Subscriptions[s].Bundle)'
      PROVE  BundlesAreLive'
  <2> SUFFICES ASSUME NEW s \in Slots \ suspect', Subscriptions'[s].Bundle # Unset,
                      ~(thread' = "bind" /\ binding' = s)
               PROVE  /\ Subscriptions'[s].Bundle = Subscriptions'[s].device
                      /\ Exists(Subscriptions[s].Bundle)'
    BY DEF BundlesAreLive
  <2> QED
    BY <1>2, <1>3
<1>4. CASE ThreadStarts
  <2>1. /\ UNCHANGED <<Subscriptions, binding, suspect, allTalons, pinUse>>
        /\ thread = "start" /\ thread' = "check"
    BY <1>4 DEF ThreadStarts
  <2>2. \A d : Exists(d) => Exists(d)'
    BY <2>1 DEF Exists
  <2>3. BundlesAreLive'
    <3>1. \A s \in Slots : Exists(Subscriptions[s].Bundle)
                             => Exists(Subscriptions[s].Bundle)'
      BY <2>1 DEF Exists
    <3> QED
      BY <1>3, <2>1, <3>1
  <2> QED
    BY <2>1, <2>3 DEF FoundInPlace
<1>5. CASE RunChange
  <2>1. /\ UNCHANGED <<Subscriptions, binding, index, thread, allTalons, pinUse>>
        /\ change # NoChange /\ graphable' = Changed
        /\ suspect' = IF change.op = "erase" /\ thread = "bind"
                      THEN suspect \cup {binding} ELSE suspect
    BY <1>5 DEF RunChange, EndChange, own
  <2>2. BundlesAreLive'
    <3>1. \A s \in Slots : Exists(Subscriptions[s].Bundle)
                             => Exists(Subscriptions[s].Bundle)'
      BY <2>1 DEF Exists
    <3> QED
      BY <1>3, <2>1, <3>1
  <2>3. FoundInPlace'
    <3> SUFFICES ASSUME thread = "bind", binding \notin suspect'
                 PROVE  /\ index + 1 \in DOMAIN graphable'
                        /\ graphable'[index + 1] = Subscriptions[binding].device
      BY <2>1 DEF FoundInPlace
    <3>1. change.op # "erase" /\ binding \notin suspect
      BY <2>1
    <3> QED
      BY <1>1, <2>1, <3>1, ChangedList DEF FoundInPlace
  <2> QED
    BY <2>2, <2>3
<1>6. ASSUME NEW id \in TalonIDs, ChangeTalons(id)
      PROVE  FoundInPlace' /\ BundlesAreLive'
  <2>1. /\ UNCHANGED <<Subscriptions, binding, index, thread, graphable, suspect>>
        /\ allTalons' = allTalons \cup {id} /\ UNCHANGED pinUse
    BY <1>6 DEF ChangeTalons, PossiblyCreateTalon, own
  <2>2. BundlesAreLive'
    <3>1. \A s \in Slots : Exists(Subscriptions[s].Bundle)
                             => Exists(Subscriptions[s].Bundle)'
      BY <2>1 DEF Exists
    <3> QED
      BY <1>3, <2>1, <3>1
  <2> QED
    BY <1>1, <2>1, <2>2 DEF FoundInPlace
<1>7. ASSUME NEW pin \in Pins, GetDIO_Pin(pin)
      PROVE  FoundInPlace' /\ BundlesAreLive'
  <2>1. /\ UNCHANGED <<Subscriptions, binding, index, thread, graphable, suspect,
                       allTalons>>
        /\ pinUse' = [pinUse EXCEPT ![pin] = "input"]
    BY <1>7 DEF GetDIO_Pin, PossiblyCreateDigitalInput, own
  <2>2. BundlesAreLive'
    <3>1. \A s \in Slots :
            Subscriptions[s].Bundle \in Devices /\ Exists(Subscriptions[s].Bundle)
              => Exists(Subscriptions[s].Bundle)'
      BY <1>1, <2>1, DeviceKinds DEF Exists
    <3> QED
      BY <1>3, <2>1, <3>1
  <2> QED
    BY <1>1, <2>1, <2>2 DEF FoundInPlace
<1>8. ASSUME NEW pin \in Pins, SetDIO_Pin(pin)
      PROVE  FoundInPlace' /\ BundlesAreLive'
  <2>1. /\ UNCHANGED <<Subscriptions, binding, index, thread, graphable, allTalons>>
        /\ pinUse' = [pinUse EXCEPT ![pin] = "output"]
        /\ IF pinUse[pin] = "input"
           THEN suspect' = suspect \cup
                             {s \in Slots : Subscriptions[s].Bundle = DIO(pin)}
           ELSE UNCHANGED suspect
    BY <1>8 DEF SetDIO_Pin, PossiblyCreateDigitalOutput, own
  <2>2. suspect \subseteq suspect'
    BY <2>1
  <2>3. \A s \in Slots \ suspect' :
          Subscriptions[s].Bundle \in Devices /\ Exists(Subscriptions[s].Bundle)
            => Exists(Subscriptions[s].Bundle)'
    <3> SUFFICES ASSUME NEW s \in Slots \ suspect',
                        Subscriptions[s].Bundle \in Devices,
                        Exists(Subscriptions[s].Bundle)
                 PROVE  Exists(Subscriptions[s].Bundle)'
      OBVIOUS
    <3>1. CASE Subscriptions[s].Bundle = DIO(pin)
      <4>1. pinUse[pin] = "input"
        BY <3>1, DeviceKinds DEF Exists
      <4> QED
        BY <2>1, <3>1, <4>1
    <3>2. CASE Subscriptions[s].Bundle # DIO(pin)
      BY <1>1, <2>1, <3>2, DeviceKinds DEF Exists
    <3> QED
      BY <3>1, <3>2
  <2>4. BundlesAreLive'
    BY <1>3, <2>1, <2>2, <2>3
  <2> QED
    BY <1>1, <2>1, <2>2, <2>4 DEF FoundInPlace
<1>9. ASSUME NEW s \in Slots, NEW d \in Devices, UpdateSubscription(s, d)
      PROVE  FoundInPlace' /\ BundlesAreLive'
  <2>1. /\ thread = "receive" /\ thread' = "bind" /\ binding' = s
        /\ Subscriptions' = [Subscriptions EXCEPT ![s].device = d]
        /\ change = NoChange => index' = IndexOfBundleWithID(graphable, d)
        /\ suspect' = IF change # NoChange \/ index' = -1 THEN suspect \cup {s}
                                                          ELSE suspect \ {s}
        /\ UNCHANGED <<graphable, allTalons, pinUse>>
    BY <1>9 DEF UpdateSubscription, Racing
  <2>2. /\ Subscriptions'[s].device = d
        /\ \A r \in Slots \ {s} : Subscriptions'[r] = Subscriptions[r]
    BY <1>1, <2>1
  <2>3. FoundInPlace'
    <3> SUFFICES ASSUME s \notin suspect'
                 PROVE  index' + 1 \in DOMAIN graphable /\ graphable[index' + 1] = d
      BY <2>1, <2>2 DEF FoundInPlace
    <3>1. change = NoChange /\ index' # -1
      BY <2>1
    <3> QED
      BY <1>1, <2>1, <3>1, SearchFindsPlace
  <2>4. \A r \in Slots : Exists(Subscriptions[r].Bundle)
                           => Exists(Subscriptions[r].Bundle)'
    <3>1. \A r \in Slots : Subscriptions'[r].Bundle = Subscriptions[r].Bundle
      BY <1>1, <2>1
    <3> QED
      BY <2>1, <3>1 DEF Exists
  <2>5. BundlesAreLive'
    <3> SUFFICES ASSUME NEW r \in Slots \ suspect', Subscriptions'[r].Bundle # Unset,
                        r # s
                 PROVE  /\ Subscriptions'[r].Bundle = Subscriptions'[r].device
                        /\ Exists(Subscriptions[r].Bundle)'
      BY <2>1 DEF BundlesAreLive
    <3>1. r \notin suspect /\ Subscriptions'[r] = Subscriptions[r]
      BY <2>1, <2>2
    <3> QED
      BY <1>2, <2>1, <2>4, <3>1
  <2> QED
    BY <2>3, <2>5
<1>10. CASE BindSubscription
  <2>1. PICK object \in {ObjectAt(index)} \cup (IF Racing THEN {Lost} ELSE {}) :
          Subscriptions' = [Subscriptions EXCEPT ![binding].Bundle = object]
    BY <1>10 DEF BindSubscription
  <2>2. /\ thread = "bind" /\ thread' = "sample" /\ UNCHANGED binding
        /\ suspect' = IF change # NoChange THEN suspect \cup {binding} ELSE suspect
        /\ UNCHANGED <<graphable, allTalons, pinUse>>
    BY <1>10 DEF BindSubscription, Racing
  <2>3. \A d : Exists(d) <=> \/ d.type = "Talon" /\ d.ID \in allTalons'
                             \/ d.type = "DIO" /\ pinUse'[d.ID] = "input"
                             \/ d.type = "RoboRIO" /\ thread' # "start"
    BY <2>2 DEF Exists
  <2>4. /\ Subscriptions'[binding].Bundle = object
        /\ Subscriptions'[binding].device = Subscriptions[binding].device
        /\ \A r \in Slots \ {binding} : Subscriptions'[r] = Subscriptions[r]
    BY <1>1, <2>1
  <2>5. ASSUME binding \notin suspect'
        PROVE  object = Subscriptions[binding].device /\ Exists(object)
    <3>1. change = NoChange /\ binding \notin suspect
      BY <2>2, <2>5
    <3>2. /\ index + 1 \in DOMAIN graphable
          /\ graphable[index + 1] = Subscriptions[binding].device
      BY <1>1, <2>2, <3>1 DEF FoundInPlace
    <3>3. object = graphable[index + 1]
      BY <2>1, <3>1, <3>2 DEF Racing, ObjectAt
    <3>4. graphable[index + 1] \in Devices
      BY <1>1, <3>2, LenProperties, ElementOfSeq
    <3>5. Exists(graphable[index + 1])
      BY <1>1, <3>1, <3>2, <3>4, ChangeKinds
    <3> QED
      BY <3>2, <3>3, <3>5
  <2>6. ASSUME NEW r \in Slots \ suspect', Subscriptions'[r].Bundle # Unset
        PROVE  /\ Subscriptions'[r].Bundle = Subscriptions'[r].device
               /\ Exists(Subscriptions'[r].Bundle)
    <3>1. CASE r = binding
      BY <2>4, <2>5, <2>6, <3>1
    <3>2. CASE r # binding
      BY <1>2, <2>2, <2>4, <2>6, <3>2
    <3> QED
      BY <3>1, <3>2
  <2>7. BundlesAreLive'
    BY <2>3, <2>6 DEF BundlesAreLive, Exists
  <2> QED
    BY <2>2, <2>7 DEF FoundInPlace
<1>11. CASE /\ ~RunChange /\ ~ThreadStarts /\ ~BindSubscription
            /\ \A id \in TalonIDs : ~ChangeTalons(id)
            /\ \A pin \in Pins : ~GetDIO_Pin(pin) /\ ~SetDIO_Pin(pin)
            /\ \A s \in Slots, d \in Devices : ~UpdateSubscription(s, d)
  <2>1. /\ UNCHANGED <<graphable, allTalons, pinUse, index, binding, suspect,
                       Subscriptions>>
        /\ \/ UNCHANGED thread
           \/ thread \notin {"start", "bind"} /\ thread' \notin {"start", "bind"}
    BY <1>11, PassingSteps
  <2>2. \A s \in Slots : Exists(Subscriptions[s].Bundle)
                           => Exists(Subscriptions[s].Bundle)'
    BY <2>1 DEF Exists
  <2>3. BundlesAreLive'
    BY <1>3, <2>1, <2>2
  <2> QED
    BY <1>1, <2>1, <2>3 DEF FoundInPlace
<1> QED
  BY <1>4, <1>5, <1>6, <1>7, <1>8, <1>9, <1>10, <1>11

\* The operator stays on a path of menus and does one thing at a time.
LEMMA ConsoleStep ==
  ASSUME BdcInv, Next
  PROVE  MenusFollowOnePath' /\ OneThingAtATime' /\ AskedByEntry'
<1> USE DEF MenusFollowOnePath, OneThingAtATime, AskedByEntry
<1>1. /\ MenusFollowOnePath /\ OneThingAtATime /\ AskedByEntry
      /\ selected \in Seq(TalonIDs) /\ MaxSelected \in Nat \ {0}
      /\ "none" \notin DOMAIN OneSide /\ "ChangeTalons" \notin DOMAIN OneSide
      /\ change = NoChange \/ asking = "none"
  BY BdcAssumption DEF BdcInv, BdcTypeOK, OneSide
<1>2. program = "operator" => /\ Last(menus) \in DOMAIN Menus
                              /\ Returned \in Paths \ {<<>>}
                              /\ Len(menus) > 1 => Front(menus) \in Paths \ {<<>>}
  BY <1>1, PathSteps DEF Returned
<1>3. CASE Autonomous
  BY <1>1, <1>3 DEF Autonomous, shared, own
<1>4. CASE AutonomousEnds
  BY <1>1, <1>4 DEF AutonomousEnds, shared, own
<1>5. CASE OperatorControl
  BY <1>1, <1>5 DEF OperatorControl, shared, own, Paths
<1>6. ASSUME NEW i \in 1 .. 30, Choose(i)
      PROVE  MenusFollowOnePath' /\ OneThingAtATime' /\ AskedByEntry'
  <2> DEFINE f == Menus[Last(menus)][i]
  <2>1. /\ program = "operator" /\ asking = "none" /\ change = NoChange
        /\ i \in Offered(Last(menus))
        /\ entry' = IF Last(menus) = "Set" THEN i ELSE entry
        /\ UNCHANGED <<program, change, thread>>
    BY <1>6 DEF Choose, AtMenu, shared, own
  <2>2. /\ f \in DOMAIN Menus => \/ Last(menus) = "Root" /\ f \in {"Set", "Get"}
                                 \/ Last(menus) = "Set" /\ f \in Settings
        /\ f \in DOMAIN OneSide => Last(menus) = "Set" /\ f = SetFunctions[i]
    BY <1>2, <2>1, MenuEntries
  <2>3. \/ f \in DOMAIN Menus /\ menus' = Append(menus, f) /\ UNCHANGED <<asking, selected>>
        \/ /\ f = "ChangeTalons" => Len(selected) < MaxSelected
           /\ asking' = f /\ UNCHANGED <<menus, selected>>
        \/ selected' = <<>> /\ asking' = "ChangeTalons" /\ UNCHANGED menus
        \/ UNCHANGED <<menus, asking, selected>>
        \/ menus' = Returned /\ UNCHANGED <<asking, selected>>
    BY <1>6 DEF Choose
  <2> HIDE DEF f
  <2>4. f \in DOMAIN Menus => Append(menus, f) \in Paths \ {<<>>}
    BY <1>1, <2>1, <2>2, PathSteps
  <2>5. MenusFollowOnePath'
    BY <1>1, <1>2, <2>1, <2>3, <2>4
  <2>6. OneThingAtATime'
    BY <1>1, <2>1, <2>3
  <2>7. AskedByEntry'
    BY <1>1, <2>1, <2>2, <2>3
  <2> QED
    BY <2>5, <2>6, <2>7
<1>7. CASE Back
  BY <1>1, <1>2, <1>7 DEF Back, AtMenu, shared, own
<1>8. CASE Exit
  BY <1>1, <1>8 DEF Exit, AtMenu, shared, own
<1>9. CASE PulseEnds \/ Escape \/ \E v \in Values : \/ SetCommandedValue(v)
                                                    \/ PulseCommandedValue(v)
  <2>1. /\ UNCHANGED <<menus, program, entry, selected, change, thread>>
        /\ asking' \in {asking, "none"}
    BY <1>9 DEF PulseEnds, Escape, SetCommandedValue, PulseCommandedValue, shared, own
  <2> QED
    BY <1>1, <2>1
<1>10. ASSUME NEW v \in Values, EnterValue(v) \/ EnterSide(v)
       PROVE  MenusFollowOnePath' /\ OneThingAtATime' /\ AskedByEntry'
  <2>1. /\ UNCHANGED <<program, entry, selected, change, thread>>
        /\ program = "operator" /\ asking' = "none" /\ menus' = Returned
    BY <1>10 DEF EnterValue, EnterSide, AtQuestion, Answered, shared, own
  <2> QED
    BY <1>1, <1>2, <2>1
<1>11. CASE \/ \E id \in TalonIDs : ChangeTalons(id)
            \/ \E pin \in Pins : GetDIO_Pin(pin) \/ SetDIO_Pin(pin)
  <2>1. /\ UNCHANGED <<program, entry, thread>>
        /\ program = "operator" /\ asking' = "none" /\ menus' = Returned
    BY <1>11 DEF ChangeTalons, GetDIO_Pin, SetDIO_Pin, AtQuestion, Answered, own
  <2> QED
    BY <1>1, <1>2, <2>1
<1>12. CASE RunThread
  <2>1. /\ UNCHANGED <<menus, program, entry, selected, asking, change>>
        /\ thread' # "start"
    BY <1>12 DEF RunThread, GrapherThread, ThreadStarts, CountDevices,
      SendDeviceList, NoMessage, DeviceListRequest, UpdateSubscription,
      BindSubscription, Sample, shared, console
  <2> QED
    BY <1>1, <2>1
<1>13. CASE RunChange
  <2>1. /\ UNCHANGED <<menus, program, entry, selected, asking, thread>>
        /\ change' = NoChange
    BY <1>13 DEF RunChange, EndChange, own, console
  <2> QED
    BY <1>1, <2>1
<1> QED
  BY <1>3, <1>4, <1>5, <1>6, <1>7, <1>8, <1>9, <1>10, <1>11, <1>12, <1>13
  DEF Next, Console

\* No input makes more than two calls on a Talon.
LEMMA TwoCallsAtMost ==
  ASSUME NEW f \in Simple, NEW v
  PROVE  Len(CallsWith(f, v)) \in 0 .. 2
<1>1. CASE f \in SimpleValue
  <2>1. CallsWith(f, v) = <<<<f, v>>>>
    BY <1>1 DEF CallsWith, SimpleValue, Gains, Ramps, MotionMagic,
      VelocityMeasurement, FrameRates
  <2> QED
    BY <2>1
<1>2. CASE f \in DOMAIN FrameRates
  <2> DEFINE r == FrameRates[f]
             t == [k \in DOMAIN r |-> <<r[k], v>>]
  <2>1. CallsWith(f, v) = t
    BY <1>2 DEF CallsWith, SimpleValue, Gains, Ramps, MotionMagic,
      VelocityMeasurement, FrameRates
  <2>2. DOMAIN r = 1 .. 1 \/ DOMAIN r = 1 .. 2
    BY <1>2 DEF FrameRates
  <2> HIDE DEF r
  <2>3. PICK n \in {1, 2} : DOMAIN r = 1 .. n
    BY <2>2
  <2> DEFINE S == {<<r[k], v>> : k \in 1 .. n}
  <2>4. t \in [1 .. n -> S]
    BY <2>3
  <2>5. t \in Seq(S)
    <3> HIDE DEF t, S
    <3>1. n \in Nat
      BY <2>3
    <3>2. t \in UNION {[1 .. m -> S] : m \in Nat}
      BY <2>4, <3>1
    <3> QED
      BY <3>2, SeqDef, Zenon
  <2>6. Len(t) \in Nat /\ 1 .. Len(t) = 1 .. n
    BY <2>4, <2>5, LenProperties
  <2> HIDE DEF t
  <2>7. Len(t) = n
    BY <2>3, <2>6
  <2> QED
    BY <2>1, <2>3, <2>7
<1>3. CASE f \in {"SetCurrentLimit", "SetControlModeSl", "SetPulseLength"}
  <2>1. \/ CallsWith(f, v) = CurrentLimitCalls(v)
        \/ CallsWith(f, v) = SlaveCalls(v)
        \/ CallsWith(f, v) = <<>>
    BY <1>3 DEF CallsWith, SimpleValue, Gains, Ramps, MotionMagic,
      VelocityMeasurement, FrameRates
  <2> QED
    BY <2>1 DEF CurrentLimitCalls, SlaveCalls
<1> QED
  BY <1>1, <1>2, <1>3 DEF Simple

\* The telemetry thread's steps keep the types, also while it races.
LEMMA ThreadTypes ==
  ASSUME BdcInv, RunThread
  PROVE  GrapherTypeOK'
<1>1. GrapherTypeOK
  BY DEF BdcInv, BdcTypeOK
<1>2. Len(graphable) \in Nat /\ Len(graphable) <= Limit /\ Limit \in Nat
  BY <1>1, ListFits, LimitIsNat DEF BdcInv, OnePlaceEach, GrapherTypeOK
<1>3. CASE ThreadStarts
  <2>1. graphable' \in Seq(Devices)
    BY <1>1, <1>3, AppendProperties, DeviceKinds DEF ThreadStarts, GrapherTypeOK
  <2> QED
    BY <1>1, <1>3, <2>1 DEF ThreadStarts, GrapherTypeOK
<1>4. CASE CountDevices
  <2>1. Current_Sum' \in Nat
    BY <1>2, <1>4 DEF CountDevices
  <2>2. disturbed' \in BOOLEAN
    BY <1>4, Zenon DEF CountDevices
  <2>3. /\ thread' \in {"list", "receive"}
        /\ UNCHANGED <<graphable, allTalons, pinUse, change, suspect, index, binding,
                       Past_Sum, deviceList, Subscriptions>>
    BY <1>4 DEF CountDevices
  <2> QED
    BY <1>1, <2>1, <2>2, <2>3 DEF GrapherTypeOK
<1>5. CASE SendDeviceList
  <2>1. EntriesRead \subseteq Seq(Devices)
    <3>1. graphable \in Seq(Devices) /\ <<>> \in Seq(Devices)
      BY <1>1 DEF GrapherTypeOK
    <3>2. Racing => Changed \in Seq(Devices)
      BY ChangedList DEF Racing
    <3> QED
      BY <3>1, <3>2 DEF EntriesRead
  <2>2. deviceList' \in Lists
    BY <1>1, <1>5, <2>1 DEF SendDeviceList, GrapherTypeOK, Lists
  <2>3. disturbed' \in BOOLEAN
    BY <1>5, Zenon DEF SendDeviceList
  <2>4. /\ thread' \in {"receive", "sample"} /\ Past_Sum' = Current_Sum
        /\ UNCHANGED <<graphable, allTalons, pinUse, change, suspect, index, binding,
                       Current_Sum, Subscriptions>>
    BY <1>5 DEF SendDeviceList
  <2> QED
    BY <1>1, <2>2, <2>3, <2>4 DEF GrapherTypeOK
<1>6. CASE NoMessage \/ DeviceListRequest \/ Sample
  <2>1. /\ thread' \in {"sample", "answer", "check"}
        /\ UNCHANGED <<graphable, allTalons, pinUse, change, suspect, disturbed,
                       index, binding, Current_Sum, Past_Sum, deviceList,
                       Subscriptions>>
    BY <1>6 DEF NoMessage, DeviceListRequest, Sample, shared
  <2> QED
    BY <1>1, <2>1 DEF GrapherTypeOK
<1>7. ASSUME NEW s \in Slots, NEW d \in Devices, UpdateSubscription(s, d)
      PROVE  GrapherTypeOK'
  <2>1. index' \in -1 .. Limit
    <3>1. CASE Racing
      BY <1>2, <1>7, <3>1 DEF UpdateSubscription
    <3>2. CASE ~Racing
      <4>1. index' = IndexOfBundleWithID(graphable, d)
        BY <1>7, <3>2 DEF UpdateSubscription
      <4>2. index' \in Int /\ index' >= -1 /\ index' < Len(graphable)
        BY <1>1, <4>1, SearchFindsPlace DEF GrapherTypeOK, BdcInv, OnePlaceEach
      <4> QED
        BY <1>2, <4>2
    <3> QED
      BY <3>1, <3>2
  <2>2. Subscriptions' \in [Slots -> [device : Devices \cup {Unset},
                                      Bundle : Devices \cup {Unset, Lost}]]
    BY <1>1, <1>7 DEF UpdateSubscription, GrapherTypeOK
  <2>3. suspect' \subseteq Slots
    BY <1>1, <1>7 DEF UpdateSubscription, GrapherTypeOK
  <2>4. /\ thread' = "bind" /\ binding' \in Slots
        /\ UNCHANGED <<graphable, allTalons, pinUse, change, disturbed, Current_Sum,
                       Past_Sum, deviceList>>
    BY <1>7 DEF UpdateSubscription
  <2> QED
    BY <1>1, <2>1, <2>2, <2>3, <2>4 DEF GrapherTypeOK
<1>8. CASE BindSubscription
  <2>1. ObjectAt(index) \in Devices \cup {Lost}
    BY <1>1, LenProperties, ElementOfSeq DEF ObjectAt, GrapherTypeOK
  <2>2. PICK object \in Devices \cup {Lost} :
          Subscriptions' = [Subscriptions EXCEPT ![binding].Bundle = object]
    BY <1>8, <2>1 DEF BindSubscription
  <2>3. Subscriptions' \in [Slots -> [device : Devices \cup {Unset},
                                      Bundle : Devices \cup {Unset, Lost}]]
    BY <1>1, <2>2 DEF GrapherTypeOK
  <2>4. index' \in -1 .. Limit /\ suspect' \subseteq Slots
    BY <1>1, <1>2, <1>8 DEF BindSubscription, GrapherTypeOK
  <2>5. /\ thread' = "sample"
        /\ UNCHANGED <<graphable, allTalons, pinUse, change, disturbed, binding,
                       Current_Sum, Past_Sum, deviceList>>
    BY <1>8 DEF BindSubscription
  <2> QED
    BY <1>1, <2>3, <2>4, <2>5 DEF GrapherTypeOK
<1> QED
  BY <1>3, <1>4, <1>5, <1>6, <1>7, <1>8 DEF RunThread, GrapherThread

\* What the operator and the end of a change do to the vector and its history.
LEMMA SharedTypes ==
  ASSUME BdcInv, Next, ~RunThread
  PROVE  GrapherTypeOK'
<1>1. GrapherTypeOK
  BY DEF BdcInv, BdcTypeOK
<1>2. CASE RunChange
  <2>1. graphable' \in Seq(Devices)
    BY <1>2, ChangedList DEF RunChange, EndChange
  <2>2. suspect' \subseteq Slots
    BY <1>1, <1>2 DEF RunChange, EndChange, GrapherTypeOK
  <2>3. change' = NoChange /\ UNCHANGED <<allTalons, pinUse, disturbed, own>>
    BY <1>2 DEF RunChange, EndChange
  <2> QED
    BY <1>1, <2>1, <2>2, <2>3 DEF GrapherTypeOK, own
<1>3. ASSUME NEW id \in TalonIDs, ChangeTalons(id)
      PROVE  GrapherTypeOK'
  <2>1. /\ change' \in {NoChange} \cup {Push(d) : d \in Devices}
                                  \cup {Erase(d) : d \in Devices}
        /\ allTalons' \subseteq TalonIDs
        /\ UNCHANGED <<graphable, pinUse, suspect, disturbed, own>>
    BY <1>1, <1>3, DeviceKinds DEF ChangeTalons, PossiblyCreateTalon, GrapherTypeOK
  <2> QED
    BY <1>1, <2>1 DEF GrapherTypeOK, own
<1>4. ASSUME NEW pin \in Pins, GetDIO_Pin(pin)
      PROVE  GrapherTypeOK'
  <2>1. /\ change' \in {NoChange} \cup {Push(d) : d \in Devices}
                                  \cup {Erase(d) : d \in Devices}
        /\ pinUse' \in [Pins -> {"none", "input", "output"}]
        /\ UNCHANGED <<graphable, allTalons, suspect, disturbed, own>>
    BY <1>1, <1>4, DeviceKinds
    DEF GetDIO_Pin, PossiblyCreateDigitalInput, GrapherTypeOK
  <2> QED
    BY <1>1, <2>1 DEF GrapherTypeOK, own
<1>5. ASSUME NEW pin \in Pins, SetDIO_Pin(pin)
      PROVE  GrapherTypeOK'
  <2>1. /\ change' \in {NoChange} \cup {Push(d) : d \in Devices}
                                  \cup {Erase(d) : d \in Devices}
        /\ pinUse' \in [Pins -> {"none", "input", "output"}]
        /\ suspect' \subseteq Slots
        /\ UNCHANGED <<graphable, allTalons, own>>
    BY <1>1, <1>5, DeviceKinds
    DEF SetDIO_Pin, PossiblyCreateDigitalOutput, GrapherTypeOK
  <2>2. disturbed' = TRUE \/ disturbed' = disturbed
    BY <1>5, Zenon DEF SetDIO_Pin, PossiblyCreateDigitalOutput
  <2>3. disturbed' \in BOOLEAN
    BY <1>1, <2>2, Zenon DEF GrapherTypeOK
  <2> QED
    BY <1>1, <2>1, <2>3 DEF GrapherTypeOK, own
<1>6. CASE /\ ~RunChange
           /\ \A id \in TalonIDs : ~ChangeTalons(id)
           /\ \A pin \in Pins : ~GetDIO_Pin(pin) /\ ~SetDIO_Pin(pin)
  <2>1. UNCHANGED <<shared, own>>
    BY <1>6 DEF Next, Console, Autonomous, AutonomousEnds, OperatorControl, Choose,
      Back, Exit, PulseEnds, Escape, EnterValue, EnterSide, SetCommandedValue,
      PulseCommandedValue
  <2> QED
    BY <1>1, <2>1 DEF GrapherTypeOK, shared, own
<1> QED
  BY <1>2, <1>3, <1>4, <1>5, <1>6

\* Every step keeps the types of what the operator's thread holds.
LEMMA ConsoleTypes ==
  ASSUME BdcInv, Next
  PROVE  /\ program' \in {"waiting", "autonomous", "operator", "exited"}
         /\ asking' \in Asking \cup {"none"}
         /\ entry' \in 0 .. 30
         /\ selected' \in Seq(TalonIDs) /\ Len(selected') <= MaxSelected
         /\ tempvars' \in [Sides -> Values \cup {0}]
         /\ pulsing' \in BOOLEAN
         /\ Len(calls') \in 0 .. 2
<1>1. /\ program \in {"waiting", "autonomous", "operator", "exited"}
      /\ asking \in Asking \cup {"none"}
      /\ entry \in 0 .. 30
      /\ selected \in Seq(TalonIDs) /\ Len(selected) <= MaxSelected
      /\ tempvars \in [Sides -> Values \cup {0}]
      /\ pulsing \in BOOLEAN
      /\ Len(calls) \in 0 .. 2
      /\ MaxSelected \in Nat \ {0}
      /\ asking = "ChangeTalons" => Len(selected) < MaxSelected
      /\ "ChangeTalons" \in Asking
  BY BdcAssumption DEF BdcInv, BdcTypeOK, OneThingAtATime, Asking
<1>2. CASE Autonomous \/ AutonomousEnds \/ OperatorControl \/ Exit
  BY <1>1, <1>2 DEF Autonomous, AutonomousEnds, OperatorControl, Exit
<1>3. ASSUME NEW i \in 1 .. 30, Choose(i)
      PROVE  /\ asking' \in Asking \cup {"none"} /\ entry' \in 0 .. 30
             /\ selected' \in {selected, <<>>} /\ Len(calls') \in 0 .. 2
             /\ UNCHANGED <<program, tempvars>>
  BY <1>1, <1>3 DEF Choose
<1>4. CASE Back
  BY <1>1, <1>4 DEF Back
<1>5. ASSUME \/ PulseEnds \/ Escape
             \/ \E v \in Values : SetCommandedValue(v) \/ PulseCommandedValue(v)
      PROVE  /\ Len(calls') \in 0 .. 2 /\ asking' \in {asking, "none"}
             /\ UNCHANGED <<program, entry, selected, tempvars>>
  BY <1>1, <1>5 DEF PulseEnds, Escape, SetCommandedValue, PulseCommandedValue
<1>6. pulsing' \in BOOLEAN
  <2>1. CASE PulseEnds
    BY <2>1, Zenon DEF PulseEnds
  <2>2. CASE \E v \in Values : PulseCommandedValue(v)
    BY <2>2, Zenon DEF PulseCommandedValue
  <2>3. CASE ~PulseEnds /\ \A v \in Values : ~PulseCommandedValue(v)
    <3>1. UNCHANGED pulsing
      BY <2>3 DEF Next, Console, Autonomous, AutonomousEnds, OperatorControl,
        Choose, Back, Exit, Escape, EnterValue, EnterSide, SetCommandedValue,
        ChangeTalons, GetDIO_Pin, SetDIO_Pin, RunThread, RunChange, console
    <3> QED
      BY <1>1, <3>1, Zenon
  <2> QED
    BY <2>1, <2>2, <2>3
<1>7. ASSUME NEW v \in Values, EnterValue(v)
      PROVE  /\ Len(calls') \in 0 .. 2 /\ asking' = "none"
             /\ UNCHANGED <<program, entry, selected, tempvars>>
  BY <1>7, TwoCallsAtMost DEF EnterValue, Answered
<1>8. ASSUME NEW v \in Values, EnterSide(v)
      PROVE  /\ Len(calls') \in 0 .. 2 /\ asking' = "none"
             /\ tempvars' \in [Sides -> Values \cup {0}]
             /\ UNCHANGED <<program, entry, selected>>
  <2>1. \E call : calls' = <<call>>
    BY <1>8 DEF EnterSide
  <2>2. tempvars' \in [Sides -> Values \cup {0}]
    BY <1>1, <1>8 DEF EnterSide
  <2> QED
    BY <1>8, <2>1, <2>2 DEF EnterSide, Answered
<1>9. ASSUME NEW id \in TalonIDs, ChangeTalons(id)
      PROVE  /\ calls' = <<>> /\ asking' = "none"
             /\ selected' \in Seq(TalonIDs) /\ Len(selected') <= MaxSelected
             /\ UNCHANGED <<program, entry, tempvars>>
  <2>1. selected' = Append(selected, id) /\ asking = "ChangeTalons"
    BY <1>9 DEF ChangeTalons, AtQuestion
  <2>2. /\ selected' \in Seq(TalonIDs) /\ Len(selected') = Len(selected) + 1
        /\ Len(selected) \in Nat
    BY <1>1, <2>1, AppendProperties, LenProperties
  <2>3. Len(selected') <= MaxSelected
    BY <1>1, <2>1, <2>2
  <2> QED
    BY <1>9, <2>2, <2>3 DEF ChangeTalons, Answered
<1>10. CASE \E pin \in Pins : GetDIO_Pin(pin) \/ SetDIO_Pin(pin)
  <2>1. /\ calls' = <<>> /\ asking' = "none"
        /\ UNCHANGED <<program, entry, selected, tempvars>>
    BY <1>10 DEF GetDIO_Pin, SetDIO_Pin, Answered
  <2> QED
    BY <1>1, <1>6, <2>1
<1>11. CASE RunThread \/ RunChange
  BY <1>1, <1>11 DEF RunThread, RunChange, console
<1>12. CASE \E i \in 1 .. 30 : Choose(i)
  <2>1. <<>> \in Seq(TalonIDs) /\ Len(<<>>) <= MaxSelected
    BY <1>1
  <2> QED
    BY <1>1, <1>3, <1>6, <1>12, <2>1
<1>13. CASE \E id \in TalonIDs : ChangeTalons(id)
  <2>1. /\ calls' = <<>> /\ asking' = "none"
        /\ selected' \in Seq(TalonIDs) /\ Len(selected') <= MaxSelected
        /\ UNCHANGED <<program, entry, tempvars>>
    BY <1>9, <1>13
  <2> QED
    BY <1>1, <1>6, <2>1
<1>14. CASE \E v \in Values : EnterValue(v) \/ EnterSide(v)
  BY <1>1, <1>6, <1>7, <1>8, <1>14
<1>15. CASE \/ PulseEnds \/ Escape
            \/ \E v \in Values : SetCommandedValue(v) \/ PulseCommandedValue(v)
  BY <1>1, <1>5, <1>6, <1>15
<1> QED
  BY <1>2, <1>4, <1>10, <1>11, <1>12, <1>13, <1>14, <1>15 DEF Next, Console

\* Every step of either thread preserves the inductive invariant.
LEMMA BdcInvStep == ASSUME BdcInv, [Next]_vars PROVE BdcInv'
<1>1. CASE Next
  <2>1. GrapherTypeOK'
    BY <1>1, ThreadTypes, SharedTypes
  <2>2. MenusFollowOnePath' /\ OneThingAtATime' /\ AskedByEntry'
    BY <1>1, ConsoleStep
  <2>3. Len(menus') \in 0 .. 3 /\ ToSet(menus') \subseteq DOMAIN Menus
    BY <2>2, PathTypes DEF MenusFollowOnePath
  <2>4. BdcTypeOK'
    BY <1>1, <2>1, <2>3, ConsoleTypes DEF BdcTypeOK
  <2> QED
    BY <1>1, <2>2, <2>4, ListStep, BindStep DEF BdcInv
<1>2. CASE UNCHANGED vars
  BY <1>2 DEF vars, shared, own, console, BdcInv, BdcTypeOK, GrapherTypeOK,
    OnePlaceEach, ListsWhatExists, ChangeIsDue, Exists, FoundInPlace,
    BundlesAreLive, MenusFollowOnePath, OneThingAtATime, AskedByEntry
<1> QED
  BY <1>1, <1>2

\* The inductive invariant holds in every state of the bench tool.
LEMMA BdcInvAlways == Spec => []BdcInv
<1>1. BdcInv /\ [Next]_vars => BdcInv'
  BY BdcInvStep
<1> QED
  BY <1>1, BdcInvInit, PTL DEF Spec

\* Type correctness, for any Talons, pins and subscriptions: in particular no
\* more than three menus are open, the place of a device being subscribed to is
\* within what there can be, and no input makes more than two calls on a Talon.
THEOREM BdcTypes == Spec => []BdcTypeOK
<1>1. BdcInv => BdcTypeOK
  BY DEF BdcInv
<1> QED
  BY <1>1, BdcInvAlways, PTL

\* Between two changes the vector lists every object there is once and no other,
\* whatever pins become inputs and outputs in whatever order (RIOUtils.cpp).
THEOREM ListedOnceAlways == Spec => []EveryObjectListedOnce
<1>1. BdcInv => EveryObjectListedOnce
  <2> SUFFICES ASSUME BdcInv, change = NoChange, NEW d \in Devices
               PROVE  Listed(d) =
                        CASE d.type = "Talon" -> IF d.ID \in allTalons THEN 1 ELSE 0
                          [] d.type = "DIO" -> IF pinUse[d.ID] = "input" THEN 1 ELSE 0
                          [] d.type = "RoboRIO" -> IF thread = "start" THEN 0 ELSE 1
    BY DEF EveryObjectListedOnce
  <2> DEFINE I == {i \in DOMAIN graphable : graphable[i] = d}
  <2>1. (\E i \in DOMAIN graphable : graphable[i] = d) <=> Exists(d)
    BY ChangeKinds DEF BdcInv, ListsWhatExists
  <2>2. CASE Exists(d)
    <3>1. PICK k \in DOMAIN graphable : graphable[k] = d
      BY <2>1, <2>2
    <3>2. I = {k}
      BY <3>1 DEF BdcInv, OnePlaceEach
    <3>3. Listed(d) = 1
      BY <3>2, FS_Singleton DEF Listed
    <3> QED
      BY <2>2, <3>3, DeviceKinds DEF Exists
  <2>3. CASE ~Exists(d)
    <3>1. I = {}
      BY <2>1, <2>3
    <3>2. Listed(d) = 0
      BY <3>1, FS_EmptySet DEF Listed
    <3> QED
      BY <2>3, <3>2, DeviceKinds DEF Exists
  <2> QED
    BY <2>2, <2>3
<1> QED
  BY <1>1, BdcInvAlways, PTL

\* For any number of subscriptions: one that met no change reads the object of
\* the device it names, however the operator's additions fall between the search
\* for its place and the fetch of its object (JerrysGrapher.cpp 84-102).
THEOREM BoundAlways == Spec => []BoundToItsDevice
<1>1. BdcInv => BoundToItsDevice
  BY DEF BdcInv, BundlesAreLive, BoundToItsDevice
<1> QED
  BY <1>1, BdcInvAlways, PTL

\* The object such a subscription reads has not been deleted: an input deleted
\* under it, or an erase between its search and its fetch, is all that can make
\* one read what is no longer there.
THEOREM LiveAlways == Spec => []BundlesAreLive
<1>1. BdcInv => BundlesAreLive
  BY DEF BdcInv
<1> QED
  BY <1>1, BdcInvAlways, PTL

\* An entry of "Set What?" that names a side of a pair writes no other side, for
\* any values and entries, whatever menus and questions came between choosing the
\* entry and answering it.
THEOREM EntryAlways == Spec => EntrySetsWhatItNames
<1>1. BdcInv /\ [Next]_vars =>
        [\A name \in DOMAIN NamedSide \ {"ReverseNominal"} :
           entry # 0 /\ SetNames[entry] = name =>
             \A side \in Sides \ {NamedSide[name]} :
               tempvars'[side] = tempvars[side]]_vars
  <2> SUFFICES ASSUME BdcInv, Next,
                      NEW name \in DOMAIN NamedSide \ {"ReverseNominal"},
                      entry # 0, SetNames[entry] = name,
                      NEW side \in Sides \ {NamedSide[name]}
               PROVE  tempvars'[side] = tempvars[side]
    BY Zenon
  <2>1. ASSUME NEW v \in Values, EnterSide(v)
        PROVE  tempvars'[side] = tempvars[side]
    <3>1. /\ asking \in DOMAIN OneSide
          /\ tempvars' = [tempvars EXCEPT ![OneSide[asking]] = v]
      BY <2>1 DEF EnterSide
    <3>2. entry \in 1 .. 30 /\ SetFunctions[entry] = asking
      BY <3>1 DEF BdcInv, AskedByEntry
    <3>3. entry \in {7, 8, 9, 17, 18}
      BY <3>2 DEF SetNames, NamedSide
    <3>4. OneSide[asking] = NamedSide[name]
      BY <3>2, <3>3 DEF SetNames, SetFunctions, NamedSide, OneSide
    <3> QED
      BY <3>1, <3>4 DEF BdcInv, BdcTypeOK
  <2>2. CASE \A v \in Values : ~EnterSide(v)
    <3>1. UNCHANGED tempvars
      BY <2>2 DEF Next, Console, Autonomous, AutonomousEnds, OperatorControl,
        Choose, Back, Exit, Escape, PulseEnds, EnterValue, SetCommandedValue,
        PulseCommandedValue, ChangeTalons, GetDIO_Pin, SetDIO_Pin, RunThread,
        RunChange, console
    <3> QED
      BY <3>1
  <2> QED
    BY <2>1, <2>2
<1>2. BdcInv /\ [Next]_vars => BdcInv'
  BY BdcInvStep
<1> QED
  BY <1>1, <1>2, BdcInvInit, PTL DEF Spec, EntrySetsWhatItNames

-----------------------------------------------------------------------------
(* What the thread remembers of the lists it sent.                          *)

\* As long as nothing was disturbed, the list sent last is the beginning of the
\* vector, no shorter than the number sent with it.
SentListIsBeginning ==
  ~disturbed =>
    /\ \A d \in Devices : change # Erase(d)
    /\ Current_Sum <= Len(graphable)
    /\ Past_Sum <= Len(deviceList.entries)
    /\ Len(deviceList.entries) <= Len(graphable)
    /\ \A i \in 1 .. Len(deviceList.entries) : deviceList.entries[i] = graphable[i]
    /\ Past_Sum = -1 \/ deviceList.number = Past_Sum

\* While the number the thread remembers is that of the devices there are, it
\* has nothing to send: the list sent last is what there is.
NothingToSend ==
  ~disturbed /\ Past_Sum = Len(graphable) =>
    deviceList = [number |-> Len(graphable), entries |-> graphable]

\* The list sent stays the beginning of a vector that grows at its end.
LEMMA SentListStep ==
  ASSUME BdcInv, SentListIsBeginning, Next
  PROVE  SentListIsBeginning'
<1> DEFINE Sent == deviceList.entries
<1>1. /\ graphable \in Seq(Devices) /\ Len(graphable) \in Nat
      /\ DOMAIN graphable = 1 .. Len(graphable)
      /\ Current_Sum \in Nat /\ Past_Sum \in Nat \cup {-1}
      /\ Sent \in Seq(Devices) /\ Len(Sent) \in Nat
  BY LenProperties DEF BdcInv, BdcTypeOK, GrapherTypeOK, Lists
<1>2. SUFFICES ASSUME ~disturbed'
               PROVE  /\ \A d \in Devices : change' # Erase(d)
                      /\ Current_Sum' <= Len(graphable')
                      /\ Past_Sum' <= Len(Sent')
                      /\ Len(Sent') <= Len(graphable')
                      /\ \A i \in 1 .. Len(Sent') : Sent'[i] = graphable'[i]
                      /\ Past_Sum' = -1 \/ deviceList'.number = Past_Sum'
  BY Zenon DEF SentListIsBeginning
<1>3. ASSUME ~disturbed
      PROVE  /\ \A d \in Devices : change # Erase(d)
             /\ Current_Sum <= Len(graphable)
             /\ Past_Sum <= Len(Sent)
             /\ Len(Sent) <= Len(graphable)
             /\ \A i \in 1 .. Len(Sent) : Sent[i] = graphable[i]
             /\ Past_Sum = -1 \/ deviceList.number = Past_Sum
  BY <1>3 DEF SentListIsBeginning
<1> HIDE DEF Sent
\* A vector that has grown at its end begins with what was sent before.
<1>4. ASSUME ~disturbed, graphable' \in Seq(Devices),
             \A i \in DOMAIN graphable : /\ i \in DOMAIN graphable'
                                         /\ graphable'[i] = graphable[i],
             UNCHANGED <<deviceList, Current_Sum, Past_Sum>>,
             \A d \in Devices : change' # Erase(d)
      PROVE  SentListIsBeginning'
  <2>1. Len(graphable') \in Nat /\ DOMAIN graphable' = 1 .. Len(graphable')
    BY <1>4, LenProperties
  <2>2. Len(graphable) <= Len(graphable')
    <3>1. CASE Len(graphable) = 0
      BY <2>1, <3>1
    <3>2. CASE Len(graphable) # 0
      <4>1. Len(graphable) \in DOMAIN graphable
        BY <1>1, <3>2
      <4>2. Len(graphable) \in 1 .. Len(graphable')
        BY <1>4, <2>1, <4>1
      <4> QED
        BY <2>1, <4>2
    <3> QED
      BY <3>1, <3>2
  <2>3. \A i \in 1 .. Len(Sent) : i \in DOMAIN graphable /\ Sent[i] = graphable'[i]
    BY <1>1, <1>3, <1>4
  <2>4. /\ Current_Sum <= Len(graphable') /\ Len(Sent) <= Len(graphable')
        /\ Past_Sum <= Len(Sent)
        /\ Past_Sum = -1 \/ deviceList.number = Past_Sum
    BY <1>1, <1>3, <1>4, <2>1, <2>2
  <2> QED
    BY <1>4, <2>3, <2>4 DEF SentListIsBeginning, Sent
<1>5. CASE ThreadStarts
  <2>1. ~disturbed /\ UNCHANGED <<change, deviceList, Current_Sum, Past_Sum>>
        /\ graphable' = Append(graphable, Rio)
    BY <1>2, <1>5 DEF ThreadStarts
  <2>2. /\ graphable' \in Seq(Devices)
        /\ \A i \in DOMAIN graphable : /\ i \in DOMAIN graphable'
                                       /\ graphable'[i] = graphable[i]
    BY <1>1, <2>1, AppendProperties, DeviceKinds, LenProperties
  <2> QED
    BY <1>2, <1>3, <1>4, <2>1, <2>2 DEF SentListIsBeginning, Sent
<1>6. CASE RunChange
  <2>1. /\ ~disturbed /\ UNCHANGED <<deviceList, Current_Sum, Past_Sum>>
        /\ graphable' = Changed /\ change' = NoChange /\ change # NoChange
    BY <1>2, <1>6 DEF RunChange, EndChange, own
  <2>2. change.op # "erase"
    BY <1>3, <2>1, ChangeKinds DEF BdcInv, BdcTypeOK, GrapherTypeOK
  <2>3. /\ graphable' \in Seq(Devices)
        /\ \A i \in DOMAIN graphable : /\ i \in DOMAIN graphable'
                                       /\ graphable'[i] = graphable[i]
    BY <2>1, <2>2, ChangedList
  <2>4. \A d \in Devices : change' # Erase(d)
    BY <2>1, ChangeKinds
  <2> QED
    BY <1>2, <1>4, <2>1, <2>3, <2>4 DEF SentListIsBeginning, Sent
<1>7. CASE CountDevices
  <2>1. /\ ~disturbed /\ ~Racing
        /\ UNCHANGED <<graphable, change, deviceList, Past_Sum>>
    BY <1>2, <1>7, Zenon DEF CountDevices
  <2>2. Current_Sum' = Len(graphable)
    BY <1>7, <2>1 DEF CountDevices
  <2> QED
    BY <1>1, <1>3, <2>1, <2>2 DEF Sent
<1>8. CASE SendDeviceList
  <2>1. ~disturbed /\ ~Racing /\ UNCHANGED <<graphable, change, Current_Sum>>
    BY <1>2, <1>8, Zenon DEF SendDeviceList
  <2>2. deviceList' = [number |-> Current_Sum, entries |-> graphable]
    BY <1>8, <2>1 DEF SendDeviceList, EntriesRead
  <2>3. Past_Sum' = Current_Sum
    BY <1>8 DEF SendDeviceList
  <2> QED
    BY <1>1, <1>3, <2>1, <2>2, <2>3 DEF Sent
<1>9. CASE \/ \E id \in TalonIDs : ChangeTalons(id)
           \/ \E pin \in Pins : GetDIO_Pin(pin) \/ SetDIO_Pin(pin)
  <2>1. /\ ~disturbed /\ UNCHANGED <<graphable, deviceList, Current_Sum, Past_Sum>>
        /\ change' = NoChange \/ \E e : change' = Push(e)
    BY <1>2, <1>9 DEF ChangeTalons, GetDIO_Pin, SetDIO_Pin, PossiblyCreateTalon,
      PossiblyCreateDigitalInput, PossiblyCreateDigitalOutput, own
  <2>2. \A d \in Devices : change' # Erase(d)
    BY <2>1, ChangeKinds
  <2> QED
    BY <1>3, <2>1, <2>2 DEF Sent
<1>10. CASE /\ ~RunChange /\ ~ThreadStarts /\ ~CountDevices /\ ~SendDeviceList
            /\ \A id \in TalonIDs : ~ChangeTalons(id)
            /\ \A pin \in Pins : ~GetDIO_Pin(pin) /\ ~SetDIO_Pin(pin)
  <2>1. UNCHANGED <<graphable, change, disturbed, deviceList, Current_Sum, Past_Sum>>
    <3>1. CASE Console
      BY <1>10, <3>1 DEF Console, Autonomous, AutonomousEnds, OperatorControl,
        Choose, Back, Exit, PulseEnds, Escape, EnterValue, EnterSide,
        SetCommandedValue, PulseCommandedValue, shared, own
    <3>2. CASE RunThread
      BY <1>10, <3>2 DEF RunThread, GrapherThread, NoMessage, DeviceListRequest,
        UpdateSubscription, BindSubscription, Sample, shared
    <3> QED
      BY <1>10, <3>1, <3>2 DEF Next
  <2> QED
    BY <1>2, <1>3, <2>1 DEF Sent
<1> QED
  BY <1>5, <1>6, <1>7, <1>8, <1>9, <1>10

\* As long as nothing was disturbed: while the number the thread remembers is
\* that of the devices there are, which keeps it from sending the list again,
\* the list sent last is what there is, although it counts and reads the vector
\* at different times (JerrysGrapher.cpp 70-73).
THEOREM NothingToSendAlways == Spec => []NothingToSend
<1>1. Init => SentListIsBeginning
  <2> SUFFICES ASSUME Init
               PROVE  SentListIsBeginning
    OBVIOUS
  <2> QED
    BY ChangeKinds DEF Init, GrapherInit, NoList, SentListIsBeginning
<1>2. BdcInv /\ SentListIsBeginning /\ [Next]_vars => SentListIsBeginning'
  <2>1. ASSUME UNCHANGED vars, SentListIsBeginning
        PROVE  SentListIsBeginning'
    BY <2>1 DEF vars, shared, own, SentListIsBeginning
  <2> QED
    BY <2>1, SentListStep
<1>3. BdcInv /\ SentListIsBeginning => NothingToSend
  <2> SUFFICES ASSUME BdcInv, SentListIsBeginning, ~disturbed,
                      Past_Sum = Len(graphable)
               PROVE  deviceList = [number |-> Len(graphable), entries |-> graphable]
    BY DEF NothingToSend
  <2>1. /\ graphable \in Seq(Devices) /\ Len(graphable) \in Nat
        /\ deviceList \in [number : Nat, entries : Seq(Devices)]
        /\ Len(deviceList.entries) \in Nat
    BY LenProperties DEF BdcInv, BdcTypeOK, GrapherTypeOK, Lists
  <2>2. Len(deviceList.entries) = Len(graphable) /\ deviceList.number = Len(graphable)
    BY <2>1 DEF SentListIsBeginning
  <2>3. deviceList.entries = graphable
    BY <2>1, <2>2, SeqEqual DEF SentListIsBeginning
  <2> QED
    BY <2>1, <2>2, <2>3
<1> QED
  BY <1>1, <1>2, <1>3, BdcInvAlways, PTL DEF Spec

-----------------------------------------------------------------------------
(* The cannon.                                                              *)

USE NumBarrelsAssumption DEF Barrels, LastBarrel

\* The next barrel exists, and it is the successor or the first one.
LEMMA NextBarrelInRange ==
  ASSUME NEW b \in Barrels \cup {-1}
  PROVE  /\ NextBarrel(b) \in Barrels
         /\ b = LastBarrel => NextBarrel(b) = 0
         /\ b # LastBarrel => NextBarrel(b) = b + 1
  BY DEF NextBarrel

\* After a full round the round begins anew; in a round the next barrel is not
\* spent, and the spent ones stay those up to the last barrel fired.
LEMMA NextBarrelIsNew ==
  ASSUME barrel \in Barrels \cup {-1}, spent = 0 .. barrel
  PROVE  /\ NextBarrel(barrel) \notin SpentInRound
         /\ SpentInRound \cup {NextBarrel(barrel)} = 0 .. NextBarrel(barrel)
<1>1. CASE barrel = LastBarrel
  <2>1. SpentInRound = {}
    BY <1>1 DEF SpentInRound
  <2>2. NextBarrel(barrel) = 0
    BY <1>1, NextBarrelInRange
  <2> QED BY <2>1, <2>2
<1>2. CASE barrel # LastBarrel
  <2>1. LastBarrel \in Barrels /\ LastBarrel \notin spent
    BY <1>2
  <2>2. SpentInRound = 0 .. barrel
    BY <2>1 DEF SpentInRound
  <2>3. NextBarrel(barrel) = barrel + 1
    BY <1>2, NextBarrelInRange
  <2> QED BY <2>2, <2>3
<1> QED BY <1>1, <1>2

\* The cannon starts with no barrel fired and no solenoid open.
LEMMA CannonInvInit == CannonInit => CannonInv
<1> SUFFICES ASSUME CannonInit
             PROVE  CannonInv
  OBVIOUS
<1>1. CannonTypeOK
  BY DEF CannonInit, CannonTypeOK
<1>2. MutexIsHeld
  BY DEF CannonInit, MutexIsHeld
<1>3. PulseIsOpen
  BY DEF CannonInit, PulseIsOpen
<1>4. spent = 0 .. barrel
  BY DEF CannonInit
<1> QED BY <1>1, <1>2, <1>3, <1>4 DEF CannonInv

\* Every step of either thread preserves the inductive invariant.
LEMMA CannonInvStep == CannonInv /\ [CannonNext]_cannonVars => CannonInv'
<1> SUFFICES ASSUME CannonInv, [CannonNext]_cannonVars
             PROVE  CannonInv'
  OBVIOUS
<1> USE DEF CannonInv, CannonTypeOK, MutexIsHeld, PulseIsOpen
<1>1. CASE EnableOrDisable
  BY <1>1 DEF EnableOrDisable
<1>2. CASE FireLocks
  BY <1>2 DEF FireLocks, Lock
<1>3. CASE FireReturns
  BY <1>3 DEF FireReturns, Unlock
<1>4. CASE FireOpens
  <2>1. barrel' = NextBarrel(barrel) /\ barrel' \in Barrels
    BY <1>4, NextBarrelInRange DEF FireOpens
  <2>2. notifier = "off" /\ open = {}
    BY <1>4 DEF FireOpens
  <2>3. spent' = 0 .. barrel' /\ open' = {barrel'}
    BY <1>4, <2>1, <2>2, NextBarrelIsNew DEF FireOpens
  <2> QED BY <1>4, <2>1, <2>2, <2>3 DEF FireOpens
<1>5. CASE FireStartsTimer
  BY <1>5 DEF FireStartsTimer, Unlock
<1>6. CASE ResetLocks
  BY <1>6 DEF ResetLocks, Lock
<1>7. CASE Reset
  <2>1. CASE firing
    BY <1>7, <2>1 DEF Reset, Unlock
  <2>2. CASE ~firing
    BY <1>7, <2>2 DEF Reset, Unlock
  <2> QED BY <2>1, <2>2
<1>8. CASE Expire
  BY <1>8 DEF Expire, mainThread
<1>9. CASE CloseLocks
  BY <1>9 DEF CloseLocks, Lock
<1>10. CASE CloseSolenoid
  BY <1>10 DEF CloseSolenoid, mainThread
<1>11. CASE CloseReturns
  BY <1>11 DEF CloseReturns, Unlock
<1>12. CASE UNCHANGED cannonVars
  BY <1>12 DEF cannonVars
<1> QED
  BY <1>1, <1>2, <1>3, <1>4, <1>5, <1>6, <1>7, <1>8, <1>9, <1>10, <1>11, <1>12
  DEF CannonNext, MainThread, NotifierThread

\* The inductive invariant holds in every state of the cannon.
LEMMA CannonInvAlways == CannonSpec => []CannonInv
  BY CannonInvInit, CannonInvStep, PTL DEF CannonSpec

\* Type correctness: barrel_ indexes a solenoid whenever one is used.
THEOREM CannonTypes == CannonSpec => []CannonTypeOK
<1>1. CannonInv => CannonTypeOK
  BY DEF CannonInv
<1> QED BY <1>1, CannonInvAlways, PTL

\* Two barrels are never open at once, whatever the order in which the main
\* thread and the notifier take mutex_.
THEOREM OneBarrelAlways == CannonSpec => []OneBarrelAtATime
<1>1. CannonInv => OneBarrelAtATime
  BY DEF CannonInv, PulseIsOpen, OneBarrelAtATime
<1> QED BY <1>1, CannonInvAlways, PTL

\* While mutex_ is free, firing_ is true of exactly the pulses an alarm will
\* end, at the barrel that is open.
THEOREM FiringBarrelAlways == CannonSpec => []FiringBarrelWillBeClosed
<1>1. CannonInv => FiringBarrelWillBeClosed
  BY DEF CannonInv, CannonTypeOK, MutexIsHeld, PulseIsOpen, FiringBarrelWillBeClosed
<1> QED BY <1>1, CannonInvAlways, PTL

\* No barrel is fired twice in a round.
THEOREM NoBarrelFiredTwice == CannonSpec => NoBarrelTwice
<1>1. CannonInv /\ [CannonNext]_cannonVars
        => [open' \subseteq open \/ barrel' \notin SpentInRound]_cannonVars
  <2> SUFFICES ASSUME CannonInv, CannonNext
               PROVE  open' \subseteq open \/ barrel' \notin SpentInRound
    OBVIOUS
  <2>1. CASE FireOpens
    BY <2>1, NextBarrelIsNew DEF FireOpens, CannonInv, CannonTypeOK
  <2>2. CASE ~FireOpens
    BY <2>2 DEF CannonNext, MainThread, NotifierThread, EnableOrDisable, FireLocks,
      FireReturns, FireStartsTimer, ResetLocks, Reset, Expire, CloseLocks,
      CloseSolenoid, CloseReturns
  <2> QED BY <2>1, <2>2
<1> QED BY <1>1, CannonInvAlways, PTL DEF CannonSpec, NoBarrelTwice
=============================================================================

--------------------------- MODULE NetlinkProofs ---------------------------
(* What NetlinkClient does to the kernel's tables, for any configuration,  *)
(* any routes and any entries of others.                                   *)
EXTENDS Netlink, TLAPS

(* A clear works on a VNI that has a table, has listed only entries of     *)
(* that table, and is not going on in a process that has ended.            *)
ClearIsSane ==
    /\ phase = "down" => clearing = None /\ unclear = {}
    /\ clearing # None => HasTable(clearing)
    /\ clearing = None => listed = {}
    /\ \A e \in listed : e.table = Byte(clearing)

(* While the process starts, the tables cleared so far have none of our    *)
(* entries, and of the table it works on it has listed all that are left.  *)
CleanStart ==
    phase = "starting" =>
        /\ \A v \in Vnis : HasTable(v) /\ v \notin unclear =>
              \A e \in kernel : e.ours => e.table # Byte(v)
        /\ clearing # None =>
              \A e \in kernel : e.ours /\ e.table = Byte(clearing) => e \in listed

NetlinkInv == TypeOK /\ ClearIsSane /\ CleanStart
-----------------------------------------------------------------------------
(* A table id as it is sent is a byte, and the table it names is never 0.  *)
LEMMA ByteRange ==
    ASSUME config \in Configs, NEW v \in Vnis
    PROVE  Byte(v) \in 0..255 /\ TableOf(v) \in 1..255
<1>1. config.table[v] \in Int
  BY NetlinkOK
<1>2. config.table[v] % 256 \in 0..255
  BY <1>1
<1>3. Byte(v) \in 0..255
  BY <1>2 DEF Byte
<1> QED
  BY <1>3 DEF TableOf, Main

(* The fields of what is installed for a route.                            *)
LEMMA OursFields ==
    ASSUME NEW r \in Routes
    PROVE  /\ Ours(r).table = TableOf(VniOf[r]) /\ Ours(r).net = NetOf[r]
           /\ Ours(r).gateway = GatewayOf[r] /\ Ours(r).ours
  BY DEF Ours, Entry

(* The types and the two facts about clears are inductive.                 *)
LEMMA NetlinkInvHolds == Spec => []NetlinkInv
<1>1. Init => NetlinkInv
  BY NetlinkOK DEF Init, NetlinkInv, TypeOK, ClearIsSane, CleanStart
<1>2. NetlinkInv /\ [Next]_vars => NetlinkInv'
  <2> SUFFICES ASSUME NetlinkInv, [Next]_vars PROVE NetlinkInv'
    OBVIOUS
  <2> USE DEF NetlinkInv, TypeOK, ClearIsSane, CleanStart
  <2>1. ASSUME NEW c \in Configs, Start(c) PROVE NetlinkInv'
    BY <2>1 DEF Start, ToClear, HasTable, Byte
  <2>2. ASSUME Started PROVE NetlinkInv'
    BY <2>2 DEF Started, HasTable, Byte
  <2>3. ASSUME Stop PROVE NetlinkInv'
    BY <2>3 DEF Stop
  <2>4. ASSUME NEW v \in Vnis, Clear(v) PROVE NetlinkInv'
    <3>1. config' = config /\ Byte(v)' = Byte(v) /\ HasTable(v)' = HasTable(v)
      BY <2>4 DEF Clear, Byte, HasTable
    <3>2. clearing' = v /\ v # None /\ HasTable(v)
      BY <2>4, NetlinkOK DEF Clear
    <3>3. \A e \in listed' : e \in kernel /\ e.ours /\ e.table = Byte(v)
      BY <2>4 DEF Clear, Lists
    <3>4. TypeOK'
      BY <2>4, <3>3 DEF Clear
    <3>5. ClearIsSane'
      <4>1. phase' # "down"
        BY <2>4 DEF Clear
      <4> QED
        BY <3>1, <3>2, <3>3, <4>1
    <3>6. CleanStart'
      <4>1. \A e \in kernel' : e.ours /\ e.table = Byte(v) => e \in listed'
        BY <2>4 DEF Clear, Lists
      <4> QED
        BY <2>4, <3>1, <3>2, <4>1 DEF Clear, HasTable, Byte
    <3> QED
      BY <3>4, <3>5, <3>6
  <2>5. ASSUME NEW e \in listed, ClearDeletes(e) PROVE NetlinkInv'
    BY <2>5 DEF ClearDeletes, HasTable, Byte
  <2>6. ASSUME ClearFails PROVE NetlinkInv'
    BY <2>6 DEF ClearFails, HasTable, Byte
  <2>7. ASSUME ClearEnds PROVE NetlinkInv'
    BY <2>7 DEF ClearEnds, HasTable, Byte
  <2>8. ASSUME NEW r \in Routes, AddRoute(r) PROVE NetlinkInv'
    <3>1. VniOf[r] \in Vnis
      BY NetlinkOK
    <3>2. Ours(r) \in {Entry(s, t) : s \in Routes, t \in 1..255}
      BY <3>1, ByteRange DEF Ours
    <3>3. TypeOK'
      BY <2>8, <3>2 DEF AddRoute, client
    <3> QED
      BY <2>8, <3>3 DEF AddRoute, client, HasTable, Byte
  <2>9. ASSUME NEW r \in Routes, RemoveRoute(r) PROVE NetlinkInv'
    BY <2>9 DEF RemoveRoute, client, HasTable, Byte
  <2>10. CASE UNCHANGED vars
    BY <2>10 DEF vars, client, HasTable, Byte
  <2> QED
    BY <2>1, <2>2, <2>3, <2>4, <2>5, <2>6, <2>7, <2>8, <2>9, <2>10 DEF Next
<1> QED
  BY <1>1, <1>2, PTL DEF Spec

(* Type correctness, and one entry for each network in a table.            *)
THEOREM NetlinkTypeCorrect == Spec => []TypeOK
  BY NetlinkInvHolds, PTL DEF NetlinkInv

-----------------------------------------------------------------------------
(* No call and no clear touches an entry of others: the configuration need *)
(* not be sound for it.                                                    *)
THEOREM ForeignStays == Spec => ForeignUntouched
<1>1. NetlinkInv /\ [Next]_vars => {e \in kernel' : ~e.ours} = {e \in kernel : ~e.ours}
  <2> SUFFICES ASSUME NetlinkInv, [Next]_vars
               PROVE  {e \in kernel' : ~e.ours} = {e \in kernel : ~e.ours}
    OBVIOUS
  <2>1. ASSUME NEW e \in listed, ClearDeletes(e)
        PROVE  {f \in kernel' : ~f.ours} = {f \in kernel : ~f.ours}
    BY <2>1 DEF ClearDeletes, NetlinkInv, TypeOK
  <2>2. ASSUME NEW r \in Routes, AddRoute(r)
        PROVE  {f \in kernel' : ~f.ours} = {f \in kernel : ~f.ours}
    BY <2>2, OursFields DEF AddRoute
  <2>3. ASSUME NEW r \in Routes, RemoveRoute(r)
        PROVE  {f \in kernel' : ~f.ours} = {f \in kernel : ~f.ours}
    BY <2>3 DEF RemoveRoute, Matches
  <2> QED
    BY <2>1, <2>2, <2>3
    DEF Next, Start, Started, Stop, Clear, ClearFails, ClearEnds, vars
<1> QED
  BY <1>1, NetlinkInvHolds, PTL DEF Spec, ForeignUntouched

-----------------------------------------------------------------------------
(* Nothing but config, which stays while the process is up, decides what   *)
(* is sound and what is installable.                                       *)
LEMMA SameConfig ==
    ASSUME config' = config
    PROVE  /\ Sound' = Sound
           /\ \A r \in Routes : Installable(r)' = Installable(r) /\ Ours(r)' = Ours(r)
<1>1. /\ \A v \in Vnis : /\ HasTable(v)' = HasTable(v) /\ Byte(v)' = Byte(v)
                          /\ TableOf(v)' = TableOf(v)
      /\ \A v, w \in Vnis : SameTable(v, w)' = SameTable(v, w)
  BY DEF HasTable, Byte, TableOf, SameTable
<1>2. \A r \in Routes : Installable(r)' = Installable(r) /\ Ours(r)' = Ours(r)
  BY DEF Installable, HasTable, Byte, Ours, Entry, TableOf
<1>3. \A r, s \in Routes : Matches(Ours(r), s)' = Matches(Ours(r), s)
  BY <1>2 DEF Matches, TableOf, Byte
<1> QED
  BY <1>1, <1>2, <1>3 DEF Sound

(* A sound configuration gives installable routes entries of their own, in *)
(* the table their VNI is cleared by.                                      *)
LEMMA OwnEntry ==
    ASSUME TypeOK, Sound, NEW r \in Routes, NEW s \in Routes, Installable(r), Installable(s)
    PROVE  /\ Ours(r).table = Byte(VniOf[r])
           /\ Ours(r).table = Ours(s).table => VniOf[r] = VniOf[s]
           /\ Ours(r) = Ours(s) => r = s
<1>1. VniOf[r] \in Vnis /\ VniOf[s] \in Vnis
  BY NetlinkOK
<1>2. HasTable(VniOf[r]) /\ HasTable(VniOf[s])
  BY DEF Installable
<1>3. Ours(r).table = Byte(VniOf[r]) /\ Ours(s).table = Byte(VniOf[s])
  BY <1>1, <1>2, OursFields DEF Sound, TableOf
<1>4. Ours(r).table = Ours(s).table => VniOf[r] = VniOf[s]
  BY <1>1, <1>2, OursFields DEF Sound, SameTable
<1>5. ASSUME Ours(r) = Ours(s) PROVE r = s
  <2>1. Matches(Ours(r), s)
    BY <1>5, OursFields DEF Matches
  <2> QED
    BY <2>1 DEF Sound
<1> QED
  BY <1>3, <1>4, <1>5

(* What a step of each kind does to the installed routes.                  *)
LEMMA InstalledStep ==
    ASSUME NetlinkInv, [Next]_vars, phase = "running", phase' = "running"
    PROVE  /\ config' = config
           /\ \/ kernel' = kernel
              \/ \E e \in listed : ClearDeletes(e)
              \/ \E r \in Routes : AddRoute(r) \/ RemoveRoute(r)
  BY DEF Next, Start, Started, Stop, Clear, ClearDeletes, ClearFails, ClearEnds,
     AddRoute, RemoveRoute, client, vars

(* A deletion of a clear takes a route of a VNI that has the same table.   *)
LEMMA ClearTakesItsTable ==
    ASSUME NetlinkInv, NEW e \in listed, NEW r \in Routes, Installable(r), e = Ours(r)
    PROVE  clearing # None /\ SameTable(clearing, VniOf[r])
<1>1. clearing \in Vnis /\ clearing # None /\ HasTable(clearing) /\ e.table = Byte(clearing)
  BY NetlinkOK DEF NetlinkInv, TypeOK, ClearIsSane
<1>2. e.table = TableOf(VniOf[r]) /\ HasTable(VniOf[r]) /\ VniOf[r] \in Vnis
  BY OursFields, NetlinkOK DEF Installable
<1>3. TableOf(VniOf[r]) \in 1..255
  BY <1>2, ByteRange DEF NetlinkInv, TypeOK
<1>4. TableOf(clearing) = Byte(clearing)
  BY <1>1, <1>2, <1>3 DEF TableOf
<1> QED
  BY <1>1, <1>2, <1>4 DEF SameTable

(* The ways a route can leave the kernel while the process runs on.        *)
LEMMA HowRoutesLeave ==
    ASSUME NetlinkInv, [Next]_vars, NEW r \in Held \ Held', phase' # "down"
    PROVE  /\ r \in Routes /\ Installable(r)
           /\ \/ clearing # None /\ SameTable(clearing, VniOf[r])
              \/ \E s \in Routes : RemoveRoute(s) /\ Matches(Ours(r), s)
<1>1. phase = "running" /\ r \in Routes /\ Installable(r) /\ Ours(r) \in kernel
  BY DEF Held
<1>2. phase' = "running"
  BY <1>1 DEF NetlinkInv, TypeOK, Next, Start, Started, Stop, Clear, ClearDeletes,
     ClearFails, ClearEnds, AddRoute, RemoveRoute, client, vars
<1>3. Ours(r) \notin kernel'
  BY <1>1, <1>2, InstalledStep, SameConfig DEF Held
<1>4. ASSUME NEW e \in listed, ClearDeletes(e)
      PROVE  clearing # None /\ SameTable(clearing, VniOf[r])
  BY <1>1, <1>3, <1>4, ClearTakesItsTable DEF ClearDeletes
<1>5. ASSUME NEW s \in Routes, AddRoute(s) PROVE FALSE
  BY <1>1, <1>3, <1>5 DEF AddRoute
<1>6. ASSUME NEW s \in Routes, RemoveRoute(s) PROVE Matches(Ours(r), s)
  BY <1>1, <1>3, <1>6 DEF RemoveRoute
<1> QED
  BY <1>1, <1>2, <1>3, <1>4, <1>5, <1>6, InstalledStep

(* With any tables, what is done for one table leaves the routes of the    *)
(* others alone: a clear takes routes of a VNI with the same 8 bits, which *)
(* may be another VNI, and a call a route that the kernel takes for its    *)
(* own.                                                                    *)
THEOREM WithdrawnExactly == Spec => WithdrawalsAreExact
<1>1. NetlinkInv /\ [Next]_vars =>
        \A r \in Held \ Held' :
           \/ phase' = "down"
           \/ clearing # None /\ SameTable(clearing, VniOf[r])
           \/ \E s \in Routes : RemoveRoute(s) /\ Matches(Ours(r), s)
  BY HowRoutesLeave
<1> QED
  BY <1>1, NetlinkInvHolds, PTL DEF Spec, WithdrawalsAreExact

(* With tables that keep VNIs and routes apart, a route is withdrawn by a  *)
(* call for it, or while its own VNI is cleared.                           *)
THEOREM WithdrawnAlone ==
  Spec => [][Sound => \A r \in Held \ Held' :
                         phase' = "down" \/ clearing = VniOf[r] \/ RemoveRoute(r)]_vars
<1>1. ASSUME NetlinkInv, [Next]_vars, Sound, NEW r \in Held \ Held', phase' # "down"
      PROVE  clearing = VniOf[r] \/ RemoveRoute(r)
  <2>1. r \in Routes /\ Installable(r)
    BY DEF Held
  <2>2. CASE clearing # None /\ SameTable(clearing, VniOf[r])
    BY <1>1, <2>1, <2>2, NetlinkOK DEF NetlinkInv, TypeOK, Sound
  <2>3. ASSUME NEW s \in Routes, RemoveRoute(s), Matches(Ours(r), s) PROVE RemoveRoute(r)
    <3>1. Installable(s)
      BY <2>3 DEF RemoveRoute
    <3>2. r = s
      BY <1>1, <2>1, <2>3, <3>1 DEF Sound
    <3> QED
      BY <2>3, <3>2
  <2> QED
    BY <1>1, <2>2, <2>3, HowRoutesLeave
<1>2. NetlinkInv /\ [Next]_vars =>
        (Sound => \A r \in Held \ Held' :
                     phase' = "down" \/ clearing = VniOf[r] \/ RemoveRoute(r))
  BY <1>1
<1> QED
  BY <1>2, NetlinkInvHolds, PTL DEF Spec

-----------------------------------------------------------------------------
(* A process that comes up has nothing installed.                          *)
LEMMA ComesUpEmpty ==
    ASSUME NetlinkInv, Started, Sound PROVE Held' = {}
<1>1. config' = config /\ kernel' = kernel /\ phase = "starting" /\ unclear = {}
  BY DEF Started
<1>2. ASSUME NEW r \in Routes, Installable(r), Ours(r) \in kernel PROVE FALSE
  <2>1. Ours(r).table = Byte(VniOf[r]) /\ VniOf[r] \in Vnis /\ HasTable(VniOf[r])
    BY <1>2, OwnEntry, NetlinkOK DEF NetlinkInv, Installable
  <2> QED
    BY <1>1, <1>2, <2>1, OursFields DEF NetlinkInv, CleanStart
<1> QED
  BY <1>1, <1>2, SameConfig DEF Held

(* A step of a process that runs with a sound configuration changes at     *)
(* most one route.                                                         *)
LEMMA OneAtATime ==
    ASSUME NetlinkInv, [Next]_vars, Up, Up'
    PROVE  \/ Held' = Held
           \/ \E r \in Routes : Held' \in {Held \cup {r}, Held \ {r}}
<1>1. phase = "running" /\ phase' = "running" /\ Sound /\ config' = config
  BY InstalledStep DEF Up
<1>2. Held = {r \in Routes : Installable(r) /\ Ours(r) \in kernel}
  BY <1>1 DEF Held
<1>3. Held' = {r \in Routes : Installable(r) /\ Ours(r) \in kernel'}
  BY <1>1, SameConfig DEF Held
<1>4. ASSUME NEW e, kernel' = kernel \ {e}
      PROVE  \/ Held' = Held
             \/ \E r \in Routes : Held' = Held \ {r}
  <2>1. CASE \E r \in Routes : Installable(r) /\ Ours(r) = e
    <3>1. PICK r \in Routes : Installable(r) /\ Ours(r) = e
      BY <2>1
    <3>2. \A s \in Routes : Installable(s) /\ Ours(s) = e => s = r
      BY <1>1, <3>1, OwnEntry DEF NetlinkInv
    <3>3. Held' = Held \ {r}
      BY <1>2, <1>3, <1>4, <3>1, <3>2
    <3> QED
      BY <3>3
  <2>2. CASE ~\E r \in Routes : Installable(r) /\ Ours(r) = e
    BY <1>2, <1>3, <1>4, <2>2
  <2> QED
    BY <2>1, <2>2
<1>5. ASSUME NEW r \in Routes, AddRoute(r) PROVE Held' = Held \cup {r}
  <2>1. Installable(r) /\ kernel' = kernel \cup {Ours(r)}
    BY <1>5 DEF AddRoute
  <2>2. \A s \in Routes : Installable(s) /\ Ours(s) = Ours(r) => s = r
    BY <1>1, <2>1, OwnEntry DEF NetlinkInv
  <2> QED
    BY <1>2, <1>3, <2>1, <2>2
<1>6. \/ kernel' = kernel
      \/ \E e : kernel' = kernel \ {e}
      \/ \E r \in Routes : AddRoute(r)
  BY <1>1, InstalledStep DEF ClearDeletes, RemoveRoute
<1> QED
  BY <1>2, <1>3, <1>4, <1>5, <1>6

(* The netlink client is an OS client: with a sound configuration it comes *)
(* up with nothing installed and changes one route at a time, whatever an  *)
(* earlier run left in the kernel.                                         *)
THEOREM NetlinkImplementsOsClient == Spec => ImplementsOsClient
<1>1. Init => O!Init
  BY DEF Init, O!Init, Up, Installed
<1>2. NetlinkInv /\ [Next]_vars => [O!Next]_<<Up, Installed>>
  <2> SUFFICES ASSUME NetlinkInv, [Next]_vars PROVE [O!Next]_<<Up, Installed>>
    OBVIOUS
  <2>1. CASE Up /\ Up'
    <3>1. Installed = Held /\ Installed' = Held'
      BY <2>1 DEF Installed
    <3>2. CASE Held' = Held
      BY <2>1, <3>1, <3>2
    <3>3. ASSUME NEW r \in Routes, Held' \in {Held \cup {r}, Held \ {r}}
          PROVE  O!Next
      BY <2>1, <3>1, <3>3 DEF O!Next, O!Add, O!Remove
    <3> QED
      BY <2>1, <3>2, <3>3, OneAtATime
  <2>2. CASE Up /\ ~Up'
    BY <2>2 DEF Installed, O!Next, O!GoDown
  <2>3. CASE ~Up /\ Up'
    <3>1. Started /\ Sound
      BY <2>3, SameConfig DEF Up, Next, Start, Started, Stop, Clear, ClearDeletes,
         ClearFails, ClearEnds, AddRoute, RemoveRoute, client, vars
    <3>2. Held' = {}
      BY <3>1, ComesUpEmpty
    <3> QED
      BY <2>3, <3>2 DEF Installed, O!Next, O!ComeUp
  <2>4. CASE ~Up /\ ~Up'
    BY <2>4 DEF Installed, Up
  <2> QED
    BY <2>1, <2>2, <2>3, <2>4
<1> QED
  BY <1>1, <1>2, NetlinkInvHolds, PTL DEF Spec, ImplementsOsClient, O!Spec
=============================================================================

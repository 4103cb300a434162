---------------------------- MODULE CommandPlans ----------------------------
(***************************************************************************)
(* The sub-commands of utool that are made of requests, each as the set of *)
(* plans its handler may follow: the steps it takes when nothing goes      *)
(* wrong, for every choice of its options and every number of members of   *)
(* the lists it walks through.  Module Requests says how a plan runs.      *)
(***************************************************************************)
EXTENDS Integers, Sequences, FiniteSets

CONSTANT MaxMembers   \* the longest list considered

ASSUME MaxMembersAssumption == MaxMembers \in Nat

Do(kind, resource) == [do |-> kind, on |-> resource, oem |-> "no", of |-> 0]
Oem(part, step) == [step EXCEPT !.oem = part]
Of(i, step) == [step EXCEPT !.of = i]

Counts == 0..MaxMembers

\* The members of the list that the last step of p reads.
Walk(p, n, member) == p \o [j \in 1..n |-> Of(Len(p), member)]

\* The same, with a list of k parts of its own in each member.
Nest(p, n, member, k, part) ==
  p \o [i \in 1..(n * (k + 1)) |->
          LET past == (i - 1) % (k + 1)   \* steps since the member was read
          IN  IF past = 0 THEN Of(Len(p), member) ELSE Of(Len(p) + i - past, part)]

\* The options are checked before the BMC is looked for.
Connected == <<Do("check", "options"), Do("connect", "Systems")>>

Asks(steps) == {Connected \o steps}

WithMembers(steps, member) == {Walk(Connected \o steps, n, member) : n \in Counts}

WithParts(steps, member, part) ==
  {Nest(Connected \o steps, n, member, k, part) : n \in Counts, k \in Counts}

-----------------------------------------------------------------------------
\* Queries that look at messages and status (UtoolRedfishGet).
Get(resource) == Do("get", resource)

getbiosresult == Asks(<<Get("Bios")>>)
getpwrcap     == Asks(<<Get("Power")>>)
gettrap       == Asks(<<Get("SnmpService")>>)
getvnc        == Asks(<<Get("VncService")>>)
gettime       == Asks(<<Get("Manager")>>)
getproduct    == Asks(<<Get("System"), Get("Power")>>)
getsensor     == Asks(<<Get("ThresholdSensors"), Get("DiscreteSensors")>>)
gethealth     == Asks(<<Get("System"), Get("Chassis"), Get("Thermal")>>)
getmgmtport   == Asks(<<Do("trust", "EthernetInterfaces"), Get("EthernetInterface")>>)

getoverallpowerstatus ==
  {<<Do("check", "options"), Do("connect2", "Systems"), Get("System")>>}

getcpu    == WithMembers(<<Get("System"), Get("Power"), Get("Processors")>>, Get("Processor"))
getmemory == WithMembers(<<Get("System"), Get("Power"), Get("Memory")>>, Get("MemoryModule"))
getraid   == WithMembers(<<Get("System"), Get("Storages")>>, Get("Storage"))
getuser   == WithMembers(<<Get("Accounts")>>, Get("Account"))

geteventsub == WithMembers(<<Get("Subscriptions")>>, Get("Subscription"))

getnic ==
  WithParts(<<Get("Chassis"), Get("NetworkAdapters")>>, Get("NetworkAdapter"), Get("NetworkPort"))

\* The function of every device, after all devices.
getpcie ==
  LET devices(n) == Walk(Connected \o <<Do("find", "System")>>, n, Get("PCIeDevice"))
      functions(n) == [j \in 1..n |-> Of(3 + j, Get("PCIeFunction"))]
  IN  {devices(n) \o functions(n) : n \in Counts}

\* KVMIP and VirtualMedia are asked for their SSL setting, in the order and
\* number they are listed in.
getservice ==
  LET more == {<<>>, <<Get("KvmService")>>, <<Get("VirtualMedia")>>,
               <<Get("KvmService"), Get("VirtualMedia")>>, <<Get("VirtualMedia"), Get("KvmService")>>}
  IN  UNION {Asks(<<Oem("reply", Do("find", "NetworkProtocol"))>> \o m) : m \in more}

-----------------------------------------------------------------------------
\* Queries that look at the status only (UtoolMakeCurlRequest).
Read(resource) == Do("read", resource)

getfan         == Asks(<<Read("Thermal")>>)
gettemp        == Asks(<<Read("Thermal")>>)
getvolt        == Asks(<<Read("Power")>>)
getsysboot     == Asks(<<Read("System")>>)
getbiossetting == Asks(<<Read("BiosSettings")>>)
getpsu         == Asks(<<Read("Power"), Read("Chassis")>>)
getip          == Asks(<<Read("EthernetInterfaces"), Read("EthernetInterface")>>)
gethealthevent == Asks(<<Read("LogServices"), Read("LogService")>>)
getpdisk       == WithMembers(<<Read("Chassis")>>, Read("Drive"))
gettaskstate   == WithMembers(<<Read("Tasks")>>, Read("Task"))
getldisk       == WithParts(<<Read("Storages")>>, Read("Volumes"), Read("Volume"))

\* A backplane is asked for its location.
getfw ==
  {Nest(Connected \o <<Read("FirmwareInventory")>>, n, Get("Firmware"), k, Get("RelatedItem")) :
     n \in Counts, k \in {0, 1}}

\* The settings are told, or written to a file that was opened before.
getbios ==
  Asks(<<Read("Bios")>>) \cup
  {<<Do("checkfile", "file")>> \o Tail(Connected) \o <<Read("Bios"), Do("save", "file")>>}

\* Nothing is asked of the BMC.
getcapabilities == {<<Do("check", "options")>>}

-----------------------------------------------------------------------------
\* One change.
Patch(resource) == Do("patch", resource)
Post(action) == Do("post", action)

settimezone  == Asks(<<Patch("Manager")>>)
setvnc       == Asks(<<Patch("VncService")>>)
settrapcom   == Asks(<<Patch("SnmpService")>>)
settrapdest  == Asks(<<Patch("SnmpService")>>)
setsysboot   == Asks(<<Patch("System")>>)
setbios      == Asks(<<Patch("BiosSettings")>>)
locatedisk   == Asks(<<Patch("Drive")>>)
setfan       == Asks(<<Oem("payload", Patch("Thermal"))>>)
powercontrol == Asks(<<Post("ComputerSystem.Reset")>>)
resetbmc     == Asks(<<Post("Manager.Reset")>>)
restorebios  == Asks(<<Post("Bios.ResetBios")>>)
restorebmc   == Asks(<<Oem("url", Post("Manager.RestoreFactory"))>>)
clearsel     == Asks(<<Do("find", "LogServices"), Post("LogService.ClearLog")>>)

\* With a frequency it is an OEM action.
locateserver ==
  Asks(<<Patch("Chassis")>>) \cup Asks(<<Oem("url", Post("Chassis.ControlIndicatorLED"))>>)

EthernetInterface == <<Do("trust", "EthernetInterfaces"), Patch("EthernetInterface")>>

setip   == Asks(EthernetInterface)
setvlan == Asks(EthernetInterface)

-----------------------------------------------------------------------------
\* Several steps that change something.

\* The ports are chosen among those that the interface allows.
setadaptiveport ==
  Asks(<<Do("find", "EthernetInterfaces"),
         Oem("reply", Do("choose", "EthernetInterface")),
         Oem("payload", Patch("EthernetInterface"))>>)

\* The SSL setting of KVM or of the virtual media, the protocol, or both.
setservice ==
  LET ssl == {<<>>, <<Patch("KvmService")>>, <<Oem("payload", Patch("VirtualMedia"))>>}
      protocol == {<<>>, <<Patch("NetworkProtocol")>>, <<Oem("payload", Patch("NetworkProtocol"))>>}
  IN  UNION {Asks(s \o p) : s \in ssl, p \in protocol} \ {Connected}

\* What if: a deletion takes the session after the one that was compared.
delnextsession ==
  LET sessions(n) == Walk(Connected \o <<Get("Sessions")>>, n, Get("Session"))
      step(i, gone) == Of(3 + i - Cardinality(gone \cap 1..(i - 1)),
                          Do(IF i \in gone THEN "delete" ELSE "compare", "Session"))
      loop(n, gone) == [i \in 1..(n + Cardinality(gone)) |-> step(i, gone)]
      places(n) == {gone \in SUBSET (2..(2 * n)) :
                      \A i \in gone : i - 1 \notin gone /\ i <= n + Cardinality(gone)}
  IN  UNION {{sessions(n) \o loop(n, gone) : gone \in places(n)} : n \in Counts}

\* All sessions are read, then one by one compared, and deleted if they are VNC
\* sessions: gone has the places of the deletions, each behind a comparison.
delvncsession ==
  LET sessions(n) == Walk(Connected \o <<Get("Sessions")>>, n, Get("Session"))
      step(i, gone) == Of(3 + i - Cardinality(gone \cap 1..i),
                          Do(IF i \in gone THEN "delete" ELSE "compare", "Session"))
      loop(n, gone) == [i \in 1..(n + Cardinality(gone)) |-> step(i, gone)]
      places(n) == {gone \in SUBSET (2..(2 * n)) :
                      \A i \in gone : i - 1 \notin gone /\ i <= n + Cardinality(gone)}
  IN  UNION {{sessions(n) \o loop(n, gone) : gone \in places(n)} : n \in Counts}

-----------------------------------------------------------------------------
\* Tasks.
Task(action) == <<Oem("url", Post(action)), Do("wait", "Task")>>
Fetch == <<Oem("url", Do("download", "file"))>>
CheckFile == <<Do("checkfile", "file")>>

mountvmm == Asks(Task("VirtualMedia.VmmControl"))

\* A local file is uploaded first.
importbmccfg ==
  LET import == Task("Manager.ImportConfiguration")
  IN  Asks(import) \cup Asks(<<Do("upload", "file")>> \o import)

\* To a share, or to a local file that is opened before the BMC is looked for.
exportbmccfg ==
  LET export == Tail(Connected) \o Task("Manager.ExportConfiguration")
  IN  {<<Head(Connected)>> \o export, CheckFile \o export \o Fetch}

geteventlog ==
  LET query == Tail(Connected) \o <<Do("find", "LogServices")>> \o Task("LogService.CollectSel")
  IN  {<<Head(Connected)>> \o query, CheckFile \o query \o Fetch}

\* A folder gets a file with the serial number in its name.
collect ==
  LET named == {<<>>, <<Get("System")>>}
  IN  Asks(<<Do("check", "file")>> \o Task("Manager.Dump")) \cup
      UNION {Asks(n \o CheckFile \o Task("Manager.Dump") \o Fetch) : n \in named}

download == Asks(Fetch)
waittask == Asks(<<Get("Task"), Do("waittask", "Task")>>)

-----------------------------------------------------------------------------
AllPlans == UNION {
  getbiosresult, getpwrcap, gettrap, getvnc, gettime, getproduct, getsensor, gethealth,
  getmgmtport, getoverallpowerstatus, getcpu, getmemory, getraid, getuser, geteventsub,
  getnic, getpcie, getservice,
  getfan, gettemp, getvolt, getsysboot, getbiossetting, getpsu, getip, gethealthevent,
  getpdisk, gettaskstate, getldisk, getfw, getbios, getcapabilities,
  settimezone, setvnc, settrapcom, settrapdest, setsysboot, setbios, locatedisk, setfan,
  powercontrol, resetbmc, restorebios, restorebmc, clearsel, locateserver, setip, setvlan,
  setadaptiveport, setservice, delvncsession,
  mountvmm, importbmccfg, exportbmccfg, geteventlog, collect, download, waittask}
=============================================================================

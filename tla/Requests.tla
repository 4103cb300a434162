------------------------------- MODULE Requests -------------------------------
(***************************************************************************)
(* The request layer of utool (redfish.c) and what a sub-command makes of  *)
(* it.  A sub-command is a plan: the steps its handler takes when nothing  *)
(* goes wrong (module CommandPlans has them all).  Every step ends in an   *)
(* answer of the BMC, and the handler goes on or leaves by it:             *)
(*   done     it took effect and the answer says so                        *)
(*   partly   it took effect in part: HTTP 200 with messages               *)
(*   garbled  it took effect, but the answer cannot be read                *)
(*   unheard  it took effect, but the answer is lost                       *)
(*   lost     it did not, and there is no answer that can be read          *)
(*   refused  it did not, and the answer says why                          *)
(*   bare     it did not: an HTTP error with a document but no message     *)
(*   hollow   it did not: what stands under the OEM name was not sent      *)
(*   passed   it was not asked for: its list had no members                *)
(***************************************************************************)
EXTENDS Integers, Sequences

CONSTANTS
  Plans     \* the plans considered

\* A step that reads a reply treats it in one of five ways: "get" maps what it
\* finds, "find" fails without the link it looks for, "trust" follows the link
\* without looking, "choose" looks for what the user named, and "read" checks
\* the HTTP status only.  "compare" looks at a member that was read before.
Kind == {"check", "checkfile", "connect", "connect2", "get", "find", "trust", "choose",
         "read", "compare", "post", "delete", "patch", "upload", "wait", "waittask",
         "download", "save"}

\* What a step is about: a resource of the BMC, an action, or what is at hand.
Resource == {
  "Account", "Accounts", "Bios", "BiosSettings", "Chassis", "DiscreteSensors", "Drive",
  "EthernetInterface", "EthernetInterfaces", "Firmware", "FirmwareInventory", "KvmService",
  "LogService", "LogServices", "Manager", "Memory", "MemoryModule", "NetworkAdapter",
  "NetworkAdapters", "NetworkPort", "NetworkProtocol", "PCIeDevice", "PCIeFunction",
  "Power", "Processor", "Processors", "RelatedItem", "Session", "Sessions", "SnmpService",
  "Storage", "Storages", "Subscription", "Subscriptions", "System", "Systems", "Task",
  "Tasks", "Thermal", "ThresholdSensors", "VirtualMedia", "VncService", "Volume", "Volumes",
  "Bios.ResetBios", "Chassis.ControlIndicatorLED", "ComputerSystem.Reset",
  "LogService.ClearLog", "LogService.CollectSel", "Manager.Dump",
  "Manager.ExportConfiguration", "Manager.ImportConfiguration", "Manager.Reset",
  "Manager.RestoreFactory", "VirtualMedia.VmmControl", "options", "file"}

\* on: the resource; oem: whether the OEM name is part of the URL, of the
\* payload or of what the reply is searched for; of: the step whose reply lists
\* the resource, 0 for a resource that is known before.
Step == [do : Kind, on : Resource, oem : {"no", "url", "payload", "reply"}, of : Nat]

Waits(step) == step.do \in {"wait", "waittask"}

\* A list is read before its members; a command waits once at most, for the task
\* of the request before it, which is a POST for "wait".
Fit(p) ==
  /\ p \in Seq(Step)
  /\ \A i \in DOMAIN p : p[i].of < i
  /\ \A i \in DOMAIN p : p[i].do = "wait" => i > 1 /\ p[i - 1].do = "post" /\ p[i].of = 0
  /\ \A i, j \in DOMAIN p : Waits(p[i]) /\ Waits(p[j]) => i = j

ASSUME PlansAssumption == \A p \in Plans : Fit(p)

VARIABLES
  plan,     \* of the sub-command that was called
  at,       \* steps found good
  phase,    \* where the handler is within a step, or how it ended
  heard,    \* the answers, one for each step taken
  desc,     \* the text handed to utool_main
  code,     \* and the code
  oemName,  \* UtoolRedfishServer.oemName
  task,     \* the task on the BMC
  file      \* the local file that is written to

handler == <<plan, at, phase, heard>>
output  == <<desc, code>>
world   == <<task, file>>
vars    == <<handler, output, oemName, world>>

Answer == {"done", "partly", "garbled", "unheard", "lost", "refused", "bare", "hollow", "passed"}
Effective == {"done", "partly", "garbled", "unheard"}

\* Every variable keeps its type, and one answer is heard for each step.
TypeOK ==
  /\ plan \in Plans
  /\ at \in 0..Len(plan)
  /\ phase \in {"step", "tagged", "untagged", "sftp", "over", "crashed"}
  /\ heard \in Seq(Answer)
  /\ Len(heard) \in {at, at + 1} /\ Len(heard) <= Len(plan)
  /\ desc \in {"NULL", "failure", "success"} /\ code \in {"OK", "ERR"}
  /\ oemName \in {"NULL", "known"}
  /\ task \in {"none", "running", "success", "failure"}
  /\ file \in {"absent", "created", "old", "emptied", "partial", "whole"}

Init ==
  /\ plan \in Plans
  /\ at = 0 /\ phase = "step" /\ heard = <<>>
  /\ desc = "NULL" /\ code = "OK"
  /\ oemName = "NULL"
  /\ task = "none" /\ file \in {"absent", "old"}

Doing(kinds) == phase = "step" /\ at < Len(plan) /\ plan[at + 1].do \in kinds
Here == plan[at + 1]

-----------------------------------------------------------------------------
\* How a step ends: by going on, or by goto FAILURE.
\* What if: a loop counts its step twice.
GoOnTwice(a) ==
  /\ at' = at + 2 /\ phase' = "step" /\ heard' = Append(heard, a)
  /\ UNCHANGED plan

GoOn(a) ==
  /\ at' = at + 1 /\ phase' = "step" /\ heard' = Append(heard, a)
  /\ UNCHANGED plan

Leave(a, text, ret) ==
  /\ phase' = "over" /\ heard' = Append(heard, a)
  /\ desc' = text /\ code' = ret
  /\ UNCHANGED <<plan, at>>

\* What if: the code of the failure is not assigned.
UnexplainedSilently(a) == Leave(a, desc, "OK")

Explained(a)   == Leave(a, "failure", "OK")
Unexplained(a) == Leave(a, desc, "ERR")

Crash ==
  /\ phase' = "crashed"
  /\ UNCHANGED <<plan, at, heard, output>>

\* A document that is no list has no members to walk through.
Listed == Here.of > 0 => heard[Here.of] \notin {"bare", "passed"}

PassOver ==
  /\ phase = "step" /\ at < Len(plan) /\ ~Listed
  /\ Here.do = "compare" => heard[Here.of] = "passed"
  /\ GoOn("passed")
  /\ UNCHANGED <<output, oemName, world>>

-----------------------------------------------------------------------------
\* Options.  A local file to download to is opened with O_CREAT to see whether
\* it may be written.
Touched == IF Here.do = "checkfile" /\ file = "absent" THEN "created" ELSE file

\* What if: the file is opened for writing, which empties it.
CheckEmptying ==
  /\ Doing({"check", "checkfile"})
  /\ GoOn("done")
  /\ file' = IF Here.do = "checkfile" THEN "emptied" ELSE file
  /\ UNCHANGED <<output, oemName, task>>

Check ==
  /\ Doing({"check", "checkfile"})
  /\ GoOn("done")
  /\ file' = Touched
  /\ UNCHANGED <<output, oemName, task>>

CheckFails ==
  /\ Doing({"check", "checkfile"})
  /\ Explained("refused") \/ Unexplained("refused")
  /\ file' \in {file, Touched}
  /\ UNCHANGED <<oemName, task>>

\* UtoolGetRedfishServer asks for the system id, then for the OEM name.  Its
\* callers see the code and the system id: a refusal of the second request is
\* overlooked, its text stays behind and the OEM name is missing.
Connect ==
  /\ Doing({"connect", "connect2"})
  /\ GoOn("done")
  /\ oemName' = "known"
  /\ UNCHANGED <<output, world>>

ConnectBlind ==
  /\ Doing({"connect"})
  /\ GoOn("refused")
  /\ desc' = "failure"
  /\ UNCHANGED <<code, oemName, world>>

\* Either request fails; the jump to FAILURE leaves isOemMalloc and oem
\* uninitialised and they are read there.
ConnectFails ==
  /\ Doing({"connect", "connect2"})
  /\ Explained("refused") \/ Unexplained("lost") \/ Crash
  /\ UNCHANGED <<oemName, world>>

-----------------------------------------------------------------------------
\* The answers a request may get.  Without the OEM name its URL does not exist,
\* and a payload wrapped in the name loses its content.
Answers ==
  IF oemName = "known" \/ Here.oem \in {"no", "reply"} THEN Answer \ {"hollow", "passed"}
  ELSE {"refused", "bare", "lost"} \cup (IF Here.oem = "payload" THEN {"hollow"} ELSE {})

\* What if: messages that come with HTTP 200 are not looked at.
AcceptedWithMessages ==
  IF Here.do = "read" THEN {"done", "partly"} ELSE {"done", "partly", "bare", "hollow"}

\* UtoolResolvePartialFailureResponse finds a failure by five status codes and
\* by the messages of the document, whatever the status is; the older way,
\* "read", by a status of 400 and above.  Both then need a JSON document.
Accepted == IF Here.do = "read" THEN {"done", "partly"} ELSE {"done", "bare", "hollow"}

\* And which failures come with a text.
Resolved == IF Here.do = "read" THEN {"refused", "bare"} ELSE {"refused", "partly"}

\* What if: what is not found is looked for under the OEM name only.
NotFoundOem(a) == Here.oem = "reply" /\ oemName = "NULL"

\* Without the OEM name what stands under it is not found.
Searched == Here.do \in {"find", "trust", "choose"}
NotFound(a) == a = "bare" \/ (Here.oem = "reply" /\ oemName = "NULL")

\* The user may have named what is not there ("choose").
Settle(a) ==
  \/ /\ a \in Accepted /\ ~(Searched /\ NotFound(a))
     /\ GoOn(a) /\ UNCHANGED output
  \/ a \in Accepted /\ NotFound(a) /\ Here.do = "find" /\ Unexplained(a)
  \/ a \in Accepted /\ NotFound(a) /\ Here.do = "trust" /\ Crash
  \/ a \in Accepted /\ Here.do = "choose" /\ Explained(a)
  \/ a \notin Accepted /\ a \in Resolved /\ Explained(a)
  \/ a \notin Accepted /\ a \notin Resolved /\ Unexplained(a)

\* A POST that is followed by a wait has the BMC start a task; waittask finds
\* one that was started before.
StartsTask == at + 2 <= Len(plan) /\ Waits(plan[at + 2])

Request ==
  /\ Doing({"get", "find", "trust", "choose", "read", "post", "delete"}) /\ Listed
  /\ \E a \in Answers :
       /\ Settle(a)
       /\ task' = IF StartsTask /\ a \in Effective THEN "running" ELSE task
  /\ UNCHANGED <<oemName, file>>

\* A member is compared by a property of its own: without it, the program
\* reads a null pointer.
Compare ==
  /\ Doing({"compare"}) /\ Listed /\ oemName = "known"
  /\ GoOn("done")
  /\ UNCHANGED <<output, oemName, world>>

CompareCrashes ==
  /\ Doing({"compare"}) /\ heard[Here.of] # "passed"
  /\ heard[Here.of] = "bare" \/ oemName = "NULL"
  /\ Crash
  /\ UNCHANGED <<oemName, world>>

\* UtoolMakeCurlRequest gets the ETag for a PATCH with a GET of its own, whose
\* status it does not look at: without an ETag "If-Match: (null)" is sent.
ReadTag ==
  /\ Doing({"patch"})
  /\ phase' \in {"tagged", "untagged"}
  /\ UNCHANGED <<plan, at, heard, output, oemName, world>>

ReadTagFails ==
  /\ Doing({"patch"})
  /\ Unexplained("lost")
  /\ UNCHANGED <<oemName, world>>

\* The BMC makes the change if the ETag is that of the resource.
SendPatch ==
  /\ phase \in {"tagged", "untagged"}
  /\ \E a \in Answers :
       /\ a \in Effective \cup {"hollow"} => phase = "tagged"
       /\ Settle(a)
  /\ UNCHANGED <<oemName, world>>

\* A file is uploaded over HTTP; when that is answered with 404 or 413, it is
\* tried again over SFTP, where a disabled SSH is found out by a GET; an answer
\* with SSH enabled and no port is read through a null pointer.
Upload ==
  /\ Doing({"upload"})
  /\ \E a \in Answers :
       \/ a \in {"done", "partly", "garbled"} /\ GoOn(a) /\ UNCHANGED output
       \/ a \in {"refused", "bare"} /\ Explained(a)
       \/ a \in {"unheard", "lost"} /\ Unexplained(a)
  /\ UNCHANGED <<oemName, world>>

UploadUnsupported ==
  /\ Doing({"upload"})
  /\ phase' = "sftp"
  /\ desc' \in {desc, "failure"}
  /\ UNCHANGED <<plan, at, heard, code, oemName, world>>

UploadBySftp ==
  /\ phase = "sftp"
  /\ \/ GoOn("done") /\ UNCHANGED output
     \/ Explained("refused")
     \/ Unexplained("lost") \/ Unexplained("unheard")
     \/ Crash
  /\ UNCHANGED <<oemName, world>>

-----------------------------------------------------------------------------
\* Waiting for the task the POST has started: module TaskWait.  It needs the
\* task document of the answer; when it gives up, the text of the last failure
\* is gone.
HasTask == at > 0 /\ heard[at] # "bare"

WaitSucceeds ==
  /\ Doing({"wait"}) /\ HasTask
  /\ task = "success"
  /\ GoOn("done")
  /\ UNCHANGED <<output, oemName, world>>

WaitFails ==
  /\ Doing({"wait"})
  /\ \/ ~HasTask /\ Unexplained("bare")
     \/ HasTask /\ task = "failure" /\ Explained("refused")
     \/ HasTask /\ \E ret \in {"OK", "ERR"} : Leave("lost", "NULL", ret)
  /\ UNCHANGED <<oemName, world>>

\* waittask prints the task it has seen last, however the wait ended.
WaitTask ==
  /\ Doing({"waittask"})
  /\ \/ ~HasTask /\ GoOn("bare")
     \/ HasTask /\ task = "success" /\ GoOn("done")
     \/ HasTask /\ task = "failure" /\ GoOn("refused")
     \/ HasTask /\ GoOn("lost")
  /\ UNCHANGED <<output, oemName, world>>

WaitTaskFails ==
  /\ Doing({"waittask"})
  /\ Unexplained("garbled")
  /\ UNCHANGED <<oemName, world>>

\* The local file is emptied before the BMC is asked.  What is no octet stream
\* is not written to it, and HTTP 200 is a success all the same ("partly").
Download ==
  /\ Doing({"download"})
  /\ \E a \in Answers :
       \/ a = "done" /\ GoOn(a) /\ file' = "whole" /\ UNCHANGED output
       \/ a = "partly" /\ GoOn(a) /\ file' = "emptied" /\ UNCHANGED output
       \/ a \in {"refused", "bare"} /\ Explained(a) /\ file' = "emptied"
       \/ a \in {"unheard", "lost"} /\ Unexplained(a) /\ file' \in {"emptied", "partial"}
  /\ UNCHANGED <<oemName, task>>

DownloadNotStarted ==
  /\ Doing({"download"})
  /\ Unexplained("lost") /\ file' \in {file, "emptied"}
  /\ UNCHANGED <<oemName, task>>

\* What was read is written to a local file.
Save ==
  /\ Doing({"save"})
  /\ GoOn("done") /\ file' = "whole"
  /\ UNCHANGED <<output, oemName, task>>

SaveFails ==
  /\ Doing({"save"})
  /\ Unexplained("lost") /\ file' \in {file, "emptied", "partial"}
  /\ UNCHANGED <<oemName, task>>

\* UtoolBuildDefaultSuccessResult, or the output that was mapped.
Finish ==
  /\ phase = "step" /\ at = Len(plan)
  /\ phase' = "over" /\ desc' = "success"
  /\ UNCHANGED <<plan, at, heard, code, oemName, world>>

Handler ==
  \/ PassOver \/ Check \/ CheckFails \/ Connect \/ ConnectBlind \/ ConnectFails
  \/ Request \/ Compare \/ CompareCrashes \/ ReadTag \/ ReadTagFails \/ SendPatch
  \/ Upload \/ UploadUnsupported \/ UploadBySftp
  \/ WaitSucceeds \/ WaitFails \/ WaitTask \/ WaitTaskFails
  \/ Download \/ DownloadNotStarted \/ Save \/ SaveFails \/ Finish

\* The BMC works on the task.
TaskEnds ==
  /\ task = "running"
  /\ task' \in {"success", "failure"}
  /\ UNCHANGED <<handler, output, oemName, file>>

Next == Handler \/ TaskEnds

Spec == Init /\ [][Next]_vars

-----------------------------------------------------------------------------
\* What utool_main makes of the code and the text (utool.c:273).
Told ==
  CASE phase = "crashed" -> "crash"
    [] phase = "over" /\ code = "OK" /\ desc = "success" -> "success"
    [] phase = "over" /\ ~(code = "OK" /\ desc = "success") -> "failure"
    [] OTHER -> "pending"

\* What may have gone wrong although success is reported: the OEM name was not
\* learned and what needs it is left out; an error came without a message; a
\* list had no members; the older commands, uploads and downloads look at the
\* status only; waittask tells whatever it has seen.
Learned(i) ==
  \E j \in 1..(i - 1) : plan[j].do \in {"connect", "connect2"} /\ heard[j] = "done"

BlindSpot(i) ==
  \/ plan[i].do = "connect" /\ heard[i] = "refused"
  \/ plan[i].oem = "payload" /\ heard[i] = "hollow" /\ ~Learned(i)
  \/ plan[i].do \in {"get", "post", "delete", "patch"} /\ heard[i] = "bare"
  \/ plan[i].of > 0 /\ heard[i] = "passed" /\ heard[plan[i].of] \in {"bare", "passed"}
  \/ plan[i].do \in {"read", "upload", "download"} /\ heard[i] \in {"partly", "garbled"}
  \/ plan[i].do = "waittask"

\* Success is reported only when every step was done, the blind spots apart;
\* when a task had to be waited for, the POST was done without exception and
\* its task succeeded (redfish.c:1134, 1481 and every command handler).
SuccessIsEarned ==
  Told = "success" =>
    /\ Len(heard) = Len(plan)
    /\ \A i \in DOMAIN plan :
         /\ heard[i] = "done" \/ BlindSpot(i)
         /\ plan[i].do = "wait" => task = "success" /\ heard[i - 1] = "done"

\* A failure comes with a text or with an error code, unless it was a wait that
\* gave up (redfish.c:1530): nobody is left with an empty answer otherwise.
ReasonGiven ==
  Told = "failure" =>
    \/ desc = "failure"
    \/ code = "ERR"
    \/ plan[Len(heard)].do = "wait" /\ heard[Len(heard)] = "lost"

\* A local file that was there before stays as it was until everything before
\* the download, or the writing, has succeeded (redfish.c:219,
\* get_bios_settings.c:118).
OldFileKept ==
  file \in {"emptied", "partial", "whole"} =>
    \E i \in DOMAIN plan :
      /\ plan[i].do \in {"download", "save"} /\ at >= i - 1
      /\ (\E j \in 1..i : plan[j].do = "wait") => task = "success"

\* What a change is about, and the changes the BMC has made so far.
Changing == {"patch", "post", "delete", "upload"}
About(i) == <<plan[i].on, plan[i].of>>
Changed == {i \in DOMAIN heard : plan[i].do \in Changing /\ heard[i] \in Effective}

\* Nothing is changed twice, by a retry or by a loop that does not move on.
OnceOnly == \A i, j \in Changed : About(i) = About(j) => i = j

\* What the change rests on was found: the links and choices before it, and for
\* a deletion the member itself, which was read under a known OEM name and found
\* to be one of those to delete.
Compared(m) == \E k \in DOMAIN heard : plan[k].do = "compare" /\ plan[k].of = m /\ heard[k] = "done"

OnSight ==
  \A i \in Changed :
    /\ \A j \in 1..i : plan[j].do \in {"find", "trust", "choose"} => heard[j] = "done"
    /\ plan[i].do = "delete" =>
         heard[plan[i].of] = "done" /\ Learned(i) /\ Compared(plan[i].of)

\* A command that has changed something can fail only at that change or a later
\* one, at its task or at the transfer of its result: options, links and lists
\* are through by then.  It can crash only over a member to be compared.
FailsEarly ==
  Changed # {} =>
    /\ Told = "failure" => plan[Len(heard)].do \in Changing \cup {"wait", "download"}
    /\ Told = "crash" => Here.do = "compare"

\* No session that could be read is left out of a deletion that succeeds.
NoneSkipped ==
  Told = "success" =>
    \A m \in DOMAIN plan : plan[m].on = "Session" /\ plan[m].do = "get" /\ heard[m] = "done" => Compared(m)

\* A change that one step of several leaves behind was asked for once, on what
\* had been found before it, and not before all that could be found wrong without
\* it; and none of its kind is forgotten (set_service.c:118-150,
\* del_vnc_sessions.c:71-104, redfish.c:1235).
ChangesAreSound == OnceOnly /\ OnSight /\ FailsEarly /\ NoneSkipped
=============================================================================

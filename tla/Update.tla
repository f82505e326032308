------------------------------- MODULE Update -------------------------------
(***************************************************************************)
(* The update channel: CheckLatest and DownloadAndInstall.  The release    *)
(* pipeline signs manifests; the network may deliver any manifest it ever *)
(* signed, any it did not, any body for the artifact, or nothing.         *)
(* Several calls may run at once, and the process may end.                *)
(***************************************************************************)
EXTENDS Naturals, FiniteSets

CONSTANTS
    Calls,       \* the calls of one behaviour
    Versions,    \* the versions, as numbers in their order
    Current,     \* the running version
    Digests,     \* the bodies an artifact may have
    MaxReleased  \* bound: payloads signed

VersionsAssumption ==
    Versions \subseteq Nat /\ Current \in Versions /\ Digests # {} /\ MaxReleased \in Nat

VARIABLES
    released,  \* the payloads the release pipeline has signed
    files,     \* the artifact in the updates folder, by version
    temps,     \* the temporary file of every call
    calls,     \* the calls
    launched   \* what has been handed to the operating system's installer

vars == <<released, files, temps, calls, launched>>

None == "none"

\* What a payload says: "fits" stands for the channel, platform,
\* architecture, host, digest format and date that validatePayload checks.
Payloads == [version : Versions, digest : Digests, fits : BOOLEAN]
Manifests == [payload : Payloads, signed : BOOLEAN]
NoPayload == [version |-> Current, digest |-> CHOOSE d \in Digests : TRUE, fits |-> FALSE]

Idle == [pc |-> "idle", job |-> "check", got |-> [payload |-> NoPayload, signed |-> FALSE], available |-> FALSE]

Init ==
    /\ released = {}
    /\ files = [v \in Versions |-> None]
    /\ temps = [c \in Calls |-> None]
    /\ calls = [c \in Calls |-> Idle]
    /\ launched = {}

Publish(p) ==
    /\ Cardinality(released) < MaxReleased
    /\ released' = released \cup {p}
    /\ UNCHANGED <<files, temps, calls, launched>>

-----------------------------------------------------------------------------
IsNewer(latest, current) == latest > current

\* The manifests the network can deliver with a signature that verifies are
\* those the pipeline signed.
VerifyManifest(man) == man.signed

ValidatePayload(p) == p.fits

\* CheckLatest after the manifest has been read: the signature, the payload
\* and the order of the versions.
Accepted(man) ==
    /\ VerifyManifest(man)
    /\ ValidatePayload(man.payload)
    /\ ~IsNewer(Current, man.payload.version)

CheckLatest(c, job) ==
    /\ calls[c].pc = "idle"
    /\ calls' = [calls EXCEPT ![c] = [Idle EXCEPT !.pc = "fetch", !.job = job]]
    /\ UNCHANGED <<released, files, temps, launched>>

\* The call ends; a check shows what it found, an install that has no
\* update or met an error returns.
Return(c) == calls' = [calls EXCEPT ![c] = Idle]

\* The request times out after eight seconds, fails, or delivers.
Fetch(c) ==
    /\ calls[c].pc = "fetch"
    /\ \/ Return(c)
       \/ \E man \in Manifests :
            /\ man.signed => man.payload \in released
            /\ Accepted(man)
            /\ calls' = [calls EXCEPT ![c].pc = "decide", ![c].got = man,
                                      ![c].available = IsNewer(man.payload.version, Current)]
       \/ \E man \in Manifests :
            /\ man.signed => man.payload \in released
            /\ ~Accepted(man)
            /\ Return(c)
    /\ UNCHANGED <<released, files, temps, launched>>

Decide(c) ==
    /\ calls[c].pc = "decide"
    /\ IF calls[c].job = "install" /\ calls[c].available
       THEN calls' = [calls EXCEPT ![c].pc = "download"]
       ELSE Return(c)
    /\ UNCHANGED <<released, files, temps, launched>>

-----------------------------------------------------------------------------
\* A mistaken reading: a download that fails starts over.
DownloadRetried(c) ==
    /\ calls[c].pc = "download"
    /\ \/ \E d \in Digests :
            /\ temps' = [temps EXCEPT ![c] = d]
            /\ calls' = [calls EXCEPT ![c].pc = "verify"]
       \/ /\ calls' = [calls EXCEPT ![c].pc = "fetch"]
          /\ UNCHANGED temps
    /\ UNCHANGED <<released, files, launched>>

\* The body goes to a temporary file and through the hash; the request
\* times out after five minutes, the body may be too large.
Download(c) ==
    /\ calls[c].pc = "download"
    /\ \/ \E d \in Digests :
            /\ temps' = [temps EXCEPT ![c] = d]
            /\ calls' = [calls EXCEPT ![c].pc = "verify"]
       \/ /\ temps' \in {[temps EXCEPT ![c] = None]} \cup {[temps EXCEPT ![c] = d] : d \in Digests}
          /\ Return(c)
    /\ UNCHANGED <<released, files, launched>>

\* The digest is compared, then the file is renamed to its name, over
\* whatever is there.
Verify(c) ==
    /\ calls[c].pc = "verify"
    /\ LET want == calls[c].got.payload
       IN \/ /\ temps[c] = want.digest
             /\ files' = [files EXCEPT ![want.version] = temps[c]]
             /\ temps' = [temps EXCEPT ![c] = None]
             /\ calls' = [calls EXCEPT ![c].pc = "launch"]
          \/ \* the digest differs, or the rename fails; the removal may fail too
             /\ temps' \in {temps, [temps EXCEPT ![c] = None]}
             /\ Return(c)
             /\ UNCHANGED files
    /\ UNCHANGED <<released, launched>>

\* The installer reads the file under its name.
Launch(c) ==
    /\ calls[c].pc = "launch"
    /\ LET v == calls[c].got.payload.version
       IN launched' \in {launched, launched \cup {[version |-> v, digest |-> files[v]]}}
    /\ Return(c)
    /\ UNCHANGED <<released, files, temps>>

Crash ==
    /\ \E c \in Calls : calls[c].pc # "idle"
    /\ calls' = [c \in Calls |-> Idle]
    /\ UNCHANGED <<released, files, temps, launched>>

Step(c) == Fetch(c) \/ Decide(c) \/ Download(c) \/ Verify(c) \/ Launch(c)

Next ==
    \/ \E p \in Payloads : Publish(p)
    \/ \E c \in Calls, job \in {"check", "install"} : CheckLatest(c, job)
    \/ \E c \in Calls : Step(c)
    \/ Crash

\* Both requests have time limits and everything else is local, so a call
\* that runs takes its next step.
Fairness == \A c \in Calls : WF_vars(Step(c))

Spec == Init /\ [][Next]_vars /\ Fairness

-----------------------------------------------------------------------------
\* The type invariant of the module.
TypeOK ==
    /\ released \subseteq Payloads
    /\ files \in [Versions -> Digests \cup {None}]
    /\ temps \in [Calls -> Digests \cup {None}]
    /\ \A c \in Calls :
         /\ calls[c].pc \in {"idle", "fetch", "decide", "download", "verify", "launch"}
         /\ calls[c].job \in {"check", "install"}
         /\ calls[c].available \in BOOLEAN
    /\ launched \subseteq [version : Versions, digest : Digests]

\* The payloads whose artifact this build may install.
Installable == {p \in released : p.fits /\ IsNewer(p.version, Current)}

\* Every artifact under its final name, whatever was delivered and in
\* whatever state a crash left the folder, is one the pipeline signed for
\* this build and this version (downloadVerified).
FilesVerified ==
    \A v \in Versions : files[v] # None =>
        \E p \in released : p.version = v /\ p.digest = files[v] /\ p.fits

\* What is handed to the installer is an artifact the pipeline signed for
\* this build, newer than the running version, although another call may
\* replace the file between its verification and the launch
\* (DownloadAndInstall).
LaunchedGenuine ==
    \A l \in launched : \E p \in Installable : p.version = l.version /\ p.digest = l.digest

Busy(c) == calls[c].pc # "idle"

\* Every check and every installation ends, whatever the network does
\* (the client time-outs of CheckLatest and downloadVerified).
CallsEnd == \A c \in Calls : Busy(c) ~> ~Busy(c)
=============================================================================

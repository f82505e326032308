--------------------------- MODULE ProjectSettings ---------------------------
(***************************************************************************)
(* The settings of a project (internal/db/settings.go, app_settings.go,    *)
(* app_agile.go, app_fonts.go) from the launchpad that creates the project *)
(* (app_foundation.go, templates/seeds.go) to the calls that change them.  *)
(*                                                                         *)
(* The row is written whole.  The toggle of the Software-Dev Pack, the     *)
(* font and the settings page each read it, change their fields and write  *)
(* it back, with no transaction and no lock, and each call of the frontend *)
(* runs in a goroutine of its own.  Two values outside the row follow it:  *)
(* the cached toggle (agile.PackEnabled) and the font that documents use.  *)
(***************************************************************************)
EXTENDS Naturals, FiniteSets, Sequences

CONSTANTS Calls,   \* the calls in flight at one time
          Asked,   \* the seeds ticked in the launchpad, in order
          Fonts,   \* the families on offer besides the default
          MaxCalls \* bound: calls begun

SettingsAssumption == Asked \in Seq({Asked[i] : i \in DOMAIN Asked}) /\ MaxCalls \in Nat

VARIABLES phase,   \* of the launchpad: "form", "seeding", "opening", "open" or "shut"
          landed,  \* the seeds that were applied
          row,     \* the row of settings
          pack,    \* agile.PackEnabled
          font,    \* the family documents are set in
          call,    \* each call in flight
          begun    \* how many calls were begun

vars == <<phase, landed, row, pack, font, call, begun>>

Agile == {"kanban", "backlog", "sprint1"}
Known == Agile \cup {"wbs", "charter"}
Methods == {"none", "pades", "gnupg"}
UserSettings == [agile : BOOLEAN, font : Fonts \cup {"default"}, method : Methods \cup {"unset"},
                 signed : BOOLEAN, stamped : BOOLEAN]
DefaultUserSettings == [agile |-> FALSE, font |-> "default", method |-> "none", signed |-> FALSE, stamped |-> FALSE]
Idle == [op |-> "idle", want |-> "none", pc |-> "none", read |-> DefaultUserSettings]

\* A row of an older version may say that it signs and name no method.
Old == {DefaultUserSettings, [DefaultUserSettings EXCEPT !.method = "unset", !.signed = TRUE]}

Init ==
    /\ phase \in {"form", "shut"} /\ landed = <<>>
    /\ row \in IF phase = "form" THEN {DefaultUserSettings} ELSE Old
    /\ pack \in BOOLEAN /\ font = "default" /\ call = [c \in Calls |-> Idle] /\ begun = 0

NormalizeUserSettings(s) ==
    LET method == IF s.method \in Methods THEN s.method
                  ELSE IF s.signed THEN "pades" ELSE "none"
    IN [s EXCEPT !.method = method, !.signed = method # "none", !.stamped = @ /\ method = "pades"]

(* --------------------------- the launchpad ---------------------------- *)

\* The app-level default font, when there is one, goes into the new row; a
\* write that fails is ignored.
CreateProject ==
    /\ phase = "form" /\ phase' = "seeding"
    /\ row' \in {row} \cup {NormalizeUserSettings([row EXCEPT !.font = f]) : f \in Fonts}
    /\ UNCHANGED <<landed, pack, font, call, begun>>

\* An unknown seed is passed over; the first failure ends the seeding.
ApplyOne ==
    /\ phase = "seeding" /\ Len(landed) < Len(Asked)
    /\ \/ landed' = Append(landed, IF Asked[Len(landed) + 1] \in Known
                                   THEN Asked[Len(landed) + 1] ELSE "skipped") /\ phase' = phase
       \/ Asked[Len(landed) + 1] \in Known /\ phase' = "opening" /\ landed' = landed
    /\ UNCHANGED <<row, pack, font, call, begun>>

\* Every seed landed: the pack is enabled if a seed of it was asked for.
EnablePack ==
    /\ phase = "seeding" /\ Len(landed) = Len(Asked)
    /\ phase' = "opening"
    /\ row' \in {row, IF \E i \in 1..Len(Asked) : Asked[i] \in Agile
                      THEN NormalizeUserSettings([row EXCEPT !.agile = TRUE]) ELSE row}
    /\ UNCHANGED <<landed, pack, font, call, begun>>

\* OpenProject sets the document font and leaves the cached toggle alone.
OpenProject ==
    /\ phase \in {"opening", "shut"}
    /\ \/ phase' = "open" /\ font' = row.font
       \/ phase = "opening" /\ phase' = "shut" /\ UNCHANGED font
    /\ UNCHANGED <<landed, row, pack, call, begun>>

CloseProject ==
    /\ phase = "open" /\ \A c \in Calls : call[c] = Idle
    /\ phase' = "shut" /\ font' = "default"
    /\ UNCHANGED <<landed, row, pack, call, begun>>

(* ----------------------------- the calls ------------------------------ *)

Start(c, op, want) ==
    /\ phase = "open" /\ call[c] = Idle /\ begun < MaxCalls /\ begun' = begun + 1
    /\ call' = [call EXCEPT ![c] = [Idle EXCEPT !.op = op, !.want = want, !.pc = IF op = "reset" THEN "write" ELSE "read"]]
    /\ UNCHANGED <<phase, landed, row, font>>

\* SetAgileEnabled stores the cache before it reads the row, and stores only the
\* cache when no project is open.
SetAgileEnabled(c) ==
    \E b \in BOOLEAN :
        /\ pack' = b
        /\ \/ Start(c, "toggle", b)
           \/ phase = "shut" /\ UNCHANGED <<phase, landed, row, font, call, begun>>
AgileEnabled(c) == Start(c, "query", "none") /\ UNCHANGED pack
SetDefaultFont(c) == \E f \in Fonts : Start(c, "font", f) /\ UNCHANGED pack
ResetProjectSettings(c) == Start(c, "reset", "none") /\ UNCHANGED pack
\* The settings page reads the row again before it saves its fields.
SavePage(c) == \E w \in [method : Methods, stamped : BOOLEAN] : Start(c, "page", w) /\ UNCHANGED pack

Finish(c) == call' = [call EXCEPT ![c] = Idle]

GetSettings(c) ==
    /\ call[c].pc = "read"
    /\ \/ call' = [call EXCEPT ![c].pc = IF call[c].op = "query" THEN "after" ELSE "write",
                               ![c].read = NormalizeUserSettings(row)]
       \/ Finish(c)
    /\ UNCHANGED <<phase, landed, row, pack, font, begun>>

\* The page's save is refused when a time stamp is asked for without PAdES, or
\* its authority is not usable.
AsksStamp(k) == k.op = "page" /\ k.want.stamped

ToWrite(k) ==
    CASE k.op = "toggle" -> [k.read EXCEPT !.agile = k.want]
      [] k.op = "font"   -> [k.read EXCEPT !.font = k.want]
      [] k.op = "reset"  -> DefaultUserSettings
      [] OTHER           -> [k.read EXCEPT !.method = k.want.method, !.signed = k.want.method # "none",
                                           !.stamped = k.want.stamped]

SaveSettings(c) ==
    /\ call[c].pc = "write"
    /\ \/ /\ AsksStamp(call[c]) => call[c].want.method = "pades"
          /\ row' = NormalizeUserSettings(ToWrite(call[c]))
          /\ call' = [call EXCEPT ![c].pc = "after"]
       \/ Finish(c) /\ row' = row
    /\ UNCHANGED <<phase, landed, pack, font, begun>>

\* What follows the row once it is read or written.
After(c) ==
    /\ call[c].pc = "after" /\ Finish(c)
    /\ pack' = CASE call[c].op = "query" -> call[c].read.agile
                 [] call[c].op = "reset" -> FALSE
                 [] OTHER -> pack
    /\ font' = CASE call[c].op = "font" -> call[c].want
                 [] call[c].op = "reset" -> "default"
                 [] OTHER -> font
    /\ UNCHANGED <<phase, landed, row, begun>>

Next == \/ CreateProject \/ ApplyOne \/ EnablePack \/ OpenProject \/ CloseProject
        \/ \E c \in Calls : \/ SetAgileEnabled(c) \/ AgileEnabled(c) \/ SetDefaultFont(c)
                            \/ ResetProjectSettings(c) \/ SavePage(c)
                            \/ GetSettings(c) \/ SaveSettings(c) \/ After(c)
Spec == Init /\ [][Next]_vars

(* ----------------------------- properties ----------------------------- *)

\* Every variable holds a value of its kind.
TypeOK ==
    /\ phase \in {"form", "seeding", "opening", "open", "shut"} /\ Len(landed) <= Len(Asked)
    /\ \A i \in 1..Len(landed) : landed[i] \in {Asked[i], "skipped"}
    /\ row \in UserSettings /\ pack \in BOOLEAN /\ font \in Fonts \cup {"default"}
    /\ begun \in 0..MaxCalls

\* A row that was ever written signs exactly when it names a method, and asks
\* for a time stamp only with PAdES, whatever fields two interleaved calls wrote
\* back from an older read (normalizeUserSettings at every write and read).
RowConsistent ==
    /\ row.method \in Methods => row.signed = (row.method # "none")
    /\ row.stamped => row.method = "pades"
    /\ row.method = "unset" => row \in Old

\* The pack is on in a project nobody has touched since the launchpad only when
\* every seed the user ticked landed (applyLaunchpadSeeds).
PackMeansSeeded ==
    begun = 0 /\ row.agile =>
        /\ Len(landed) = Len(Asked)
        /\ \A i \in 1..Len(Asked) : Asked[i] \in Known => landed[i] = Asked[i]

\* While no call is in flight the font of documents is the font of the row: "Apply
\* immediately so the next export uses the new font" (SetDefaultFont).
FontFollowsRow == phase = "open" /\ (\A c \in Calls : call[c] = Idle) => font = row.font

\* While a project is open and no call is in flight the cached toggle is the one
\* of its row: it is set "on project load" and by the toggle (agile.PackEnabled).
PackFollowsRow == phase = "open" /\ (\A c \in Calls : call[c] = Idle) => pack = row.agile
=============================================================================

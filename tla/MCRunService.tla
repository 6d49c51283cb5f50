---------------------------- MODULE MCRunService ----------------------------
(***************************************************************************)
(* Commands for RunService.  Two object sets: A and B, then C.             *)
(***************************************************************************)
EXTENDS RunService

CONSTANTS A, B, C

AB_C == <<<<A, B>>, <<C>>>>
Ops(a, b, c) == [o \in Objects |-> CASE o = A -> a [] o = B -> b [] o = C -> c]
Kinds(s, t) == [side \in Sides |-> IF side = "source" THEN s ELSE t]
Addon(event, o, os) ==
  [from |-> IF o = Global /\ os # {} THEN "file" ELSE "script", event |-> event, objectName |-> o,
   objects |-> os, command |-> "sfdmu:run", excluded |-> FALSE, module |-> "works"]

\* A global add-on for everything, one for a list of objects, one bound to an object.
ScriptAddons == <<Addon("onBefore", Global, {}), Addon("onAfter", Global, {A, C}), Addon("onBefore", B, {})>>
UpdateAddons == <<Addon("onBeforeUpdate", A, {}), Addon("onAfterUpdate", Global, {A, B}), Addon("onDataRetrieved", Global, {})>>
\* Entries of each manifest, with some that are not to run or cannot be loaded.
CoreAddon(event) == [Addon(event, Global, {}) EXCEPT !.from = "core"]
ManifestAddons(module) ==
  <<Addon("onBefore", A, {}), [Addon("onBefore", A, {C}) EXCEPT !.from = "file", !.command = "blank"],
    [CoreAddon("onBefore") EXCEPT !.excluded = TRUE], CoreAddon("onAfter"), CoreAddon("none"),
    [Addon("onBefore", Global, {}) EXCEPT !.command = "other"],
    [Addon("onAfter", B, {}) EXCEPT !.module = module]>>
FilterAddons == <<Addon("filterRecords", A, {B}), Addon("onAfter", Global, {})>>

Command(sets, op, addons, kind, canModify) ==
  [sets |-> sets, op |-> op, addons |-> addons, kind |-> kind, canModify |-> canModify,
   failOnWarning |-> FALSE, createTargetCSVFiles |-> TRUE, importAsIs |-> FALSE, validateOnly |-> FALSE]

OrgToOrg == Kinds("production", "production")
Writing == Ops("Write", "Replace", "Write")
MCConfigs ==
  {Command(AB_C, Writing, ScriptAddons, OrgToOrg, m) : m \in {"none", "target"}}
  \cup {Command(AB_C, Writing, UpdateAddons, Kinds("sandbox", t), "none") : t \in {"sandbox", "production", "file"}}
  \cup {Command(AB_C, Ops("Write", "DeleteSource", "Write"), FilterAddons, Kinds("production", t), m) :
           t \in {"production", "file"}, m \in {"none", "target", "source"}}
  \cup {Command(AB_C, Ops("Write", op, "Write"), UpdateAddons, Kinds("sandbox", t), "none") :
           t \in {"sandbox", "file"}, op \in {"DeleteSource", "DeleteFlagged"}}
  \cup {Command(AB_C, Ops("Replace", "DeleteFlagged", "Write"), UpdateAddons, Kinds("sandbox", "sandbox"), "none")}
  \cup {Command(AB_C, Ops("Delete", "DeleteHierarchy", "Readonly"), FilterAddons, Kinds("sandbox", t), "none") :
           t \in {"production", "file"}}
  \cup {Command(AB_C, Ops("DeleteFlagged", "Readonly", "Write"), ScriptAddons, OrgToOrg, "target")}
  \cup {[Command(AB_C, Writing, ScriptAddons, Kinds("file", "production"), "none")
          EXCEPT !.validateOnly = v, !.importAsIs = i, !.failOnWarning = w] :
           v \in BOOLEAN, i \in BOOLEAN, w \in BOOLEAN}
  \cup {[Command(AB_C, Writing, UpdateAddons, Kinds("file", "sandbox"), "none")
          EXCEPT !.failOnWarning = w, !.createTargetCSVFiles = FALSE] : w \in BOOLEAN}
  \cup {[Command(<<<<A, B>>>>, Ops("Write", "Readonly", "Write"), ManifestAddons(module), Kinds("sandbox", "file"), "none")
          EXCEPT !.failOnWarning = w] : module \in {"none", "fails"}, w \in BOOLEAN}
  \cup {Command(<<>>, Writing, <<>>, OrgToOrg, "none"), Command(AB_C, Writing, <<>>, Kinds("file", "file"), "none")}
=============================================================================

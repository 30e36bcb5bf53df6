---------------------------- MODULE CheckRunner ----------------------------
(***************************************************************************)
(* What one check of a plugin returns (checker/runner.py,                  *)
(* checker/models.py).  A plugin is third-party code, so one execution of  *)
(* it is described by what it may do (PluginRun) and the functions below   *)
(* translate that into the CheckResult the runner builds.                  *)
(*                                                                         *)
(* Abstracted: the error text, and the URLs themselves (only whether there *)
(* are any decides anything).                                              *)
(***************************************************************************)
CONSTANTS Version,   \* the release strings a source can publish
          Schedule,  \* the cron strings a plugin can declare
          None       \* Python's None

ASSUME NoneAssumption == None \notin Version \cup Schedule

(***************************************************************************)
(* CheckResult: status, latest_version and schedule are what record_check  *)
(* tells apart.                                                            *)
(***************************************************************************)
Status == {"ok", "error", "unsupported"}

CheckResult == [status : Status,
                latest_version : Version \cup {None},
                schedule : Schedule \cup {None}]

(***************************************************************************)
(* One execution of a plugin while upstream publishes v:                   *)
(*   load         load_dumper returns, raises UnsupportedPlugin, or raises *)
(*                LoaderError or anything else;                            *)
(*   todump       how create_todump_list(force=True) ends;                 *)
(*   release      dumper.release once it has ended;                        *)
(*   set_release  what the set_release() fallback yields (None when it is  *)
(*                missing, unimplemented or fails);                        *)
(*   urls         whether to_dump holds any "remote";                      *)
(*   schedule     the SCHEDULE of the dumper class.                        *)
(***************************************************************************)
PluginRun(v) == [load : {"returns", "unsupported", "fails"},
                 todump : {"returns", "not_implemented", "raises"},
                 release : {v, None},
                 set_release : {v, None},
                 urls : BOOLEAN,
                 schedule : Schedule \cup {None}]

\* _ensure_release: set_release() is consulted only when release is None.
EnsureRelease(run) ==
  IF run.release # None THEN run.release ELSE run.set_release

DumperStatus(run) ==
  CASE run.todump = "raises" -> "error"
    [] run.todump = "not_implemented" -> "unsupported"
    [] run.todump = "returns" ->
         IF EnsureRelease(run) = None /\ ~run.urls THEN "unsupported" ELSE "ok"

\* run_dumper_check: the dumper's own SCHEDULE is reported whatever happens.
RunDumperCheck(run) ==
  [status |-> DumperStatus(run),
   latest_version |-> IF DumperStatus(run) = "ok" THEN EnsureRelease(run) ELSE None,
   schedule |-> run.schedule]

\* check_plugin: a plugin that does not load reports neither a version nor a
\* schedule.
CheckPlugin(run) ==
  IF run.load = "returns"
  THEN RunDumperCheck(run)
  ELSE [status |-> IF run.load = "unsupported" THEN "unsupported" ELSE "error",
        latest_version |-> None,
        schedule |-> None]

\* The result a caller makes up when future.result(timeout) expires.
TimedOut == [status |-> "error", latest_version |-> None, schedule |-> None]
=============================================================================

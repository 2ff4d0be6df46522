----------------------- MODULE MCResourceLifecycle -----------------------
(* Instances of ResourceLifecycle for TLC.                                 *)
EXTENDS ResourceLifecycle

CONSTANTS app, lib, core, broken, tool, mod, nowhere

\* app needs lib and core, lib needs core, and so do tool, which needs another
\* game build, and mod, which is made for another game; broken needs it and what is
\* not there.
Resources == {app, lib, core, tool, mod, broken}

Manifests ==
  [r \in Resources |->
     CASE r = app    -> {lib, core}
       [] r = core   -> {}
       [] r = broken -> {mod, nowhere}
       [] OTHER      -> {core}]

Constrained == {tool}

Unsuited == {mod}

\* A library has build tasks.
Built == {lib}

===========================================================================

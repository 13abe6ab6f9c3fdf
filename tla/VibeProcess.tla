---------------------------- MODULE VibeProcess ----------------------------
(***************************************************************************)
(* A vibe process: its run, in VibeRun, and what it looks at before the    *)
(* container of the run starts, in VibeLaunch.  The two share no state.    *)
(***************************************************************************)
EXTENDS VibeRun

CONSTANTS MaxChanges, MaxLaunchFaults
VARIABLES lpc, root, looked, seen, mounts, given, pi, assets, built, stale, changes, lfaults

launch == <<lpc, root, looked, seen, mounts, given, pi, assets, built, stale, changes, lfaults>>

Launch == INSTANCE VibeLaunch WITH pc <- lpc, faults <- lfaults, MaxFaults <- MaxLaunchFaults

\* VibeLaunch's properties together: through all changes of the skill folders
\* during the setup, the mounts, the credentials and the image are the checked ones
\* (revalidate_skill_root, prepare_provider_auth, ensure_runtime_assets).
LaunchIsSound == Launch!LaunchIsSound
=============================================================================

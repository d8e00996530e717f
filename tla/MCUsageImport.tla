---------------------------- MODULE MCUsageImport ----------------------------
(* One Kimi file, two Claude Code sessions and two Codex sessions.          *)
EXTENDS UsageImport
MCKimiFiles == {"kimi"}
MCClaudeFiles == {"claude1", "claude2"}
MCCodexFiles == {"codex1", "codex2"}
=============================================================================

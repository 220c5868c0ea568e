------------------------------- MODULE MCPolicy -------------------------------
(***************************************************************************)
(* Three tools, one read, one written with, one that runs commands; the    *)
(* arguments of one call are destructive, of another outside the           *)
(* workspace.                                                              *)
(***************************************************************************)
EXTENDS PolicyChecks

MCTools == {"search", "exec", "write"}
MCArgs == {"plain", "deploy", "destroy"}
MCDestructiveArgs == {"destroy"}
MCFilesystemWrite == {"write"}
MCWorkspaceArgs == {"plain"}
MCNoRules == <<>>
MCToolsLike ==
  "*" :> MCTools @@ "search_*" :> {"search"} @@ "write_*" :> {"write"} @@ "shell_*" :> {"exec"}
    @@ [p \in {"read_*", "list_*", "get_*", "create_*", "update_*", "delete_*", "drop_*"} |-> {}]
===============================================================================

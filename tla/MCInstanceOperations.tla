------------------------ MODULE MCInstanceOperations ------------------------
(* The instance of InstanceOperations that instances.cfg checks. *)
EXTENDS InstanceOperations, TLC

MCTypes == {"instance.start", "instance.stop", "instance.restart", "instance.create",
            "instance.delete", "channel.disconnect", "skill.enable",
            "mcp.configure", "backup.delete", "backup.restore", "runtime.upgrade",
            "model.profile.apply"}
Keys == Permutations(Ops)
=============================================================================

------------------------- MODULE MCManagedResources -------------------------
(***************************************************************************)
(* What is managed for an instance beside its life: its Skills and the     *)
(* store they come from, its MCP servers, the shared models bound to it,   *)
(* its own model and the probe of it, the credentials in its .env, what is *)
(* said about upgrading its Runtime, and the events that tell the Desktop  *)
(* of all of these.  Each is checked against its own hazards; they share   *)
(* no state in the model, so "part" is chosen initially and only that part *)
(* takes steps.                                                            *)
(***************************************************************************)
EXTENDS ManagedSkills, SkillStore, McpBindings, SharedModels, ModelValidation, CredentialFile,
        UpgradePlan, EventDelivery

VARIABLE part

AllVars == <<part, skillVars, storeVars, mcpVars, modelVars, validationVars, envVars, planVars, eventVars>>
Parts == {"skills", "store", "mcp", "models", "validation", "credentials", "plans", "events"}

\* A part that takes no steps stays in one of its initial states.
StillParts ==
    /\ part # "skills" => disk = Absent
    /\ part # "mcp" => entry = "absent"
    /\ part # "validation" => chosen = NotChosen
    /\ part # "credentials" => env = <<>>

MCInit ==
    /\ part \in Parts
    /\ SkillsInit /\ SkillStoreInit /\ McpInit /\ ModelsInit /\ ValidationInit /\ EnvInit /\ PlanInit
    /\ EventInit /\ StillParts

OthersStill ==
    /\ part # "skills" => UNCHANGED skillVars
    /\ part # "store" => UNCHANGED storeVars
    /\ part # "mcp" => UNCHANGED mcpVars
    /\ part # "models" => UNCHANGED modelVars
    /\ part # "validation" => UNCHANGED validationVars
    /\ part # "credentials" => UNCHANGED envVars
    /\ part # "plans" => UNCHANGED planVars
    /\ part # "events" => UNCHANGED eventVars

MCNext ==
    /\ UNCHANGED part /\ OthersStill
    /\ \/ part = "skills" /\ SkillsNext
       \/ part = "store" /\ SkillStoreNext
       \/ part = "mcp" /\ McpNext
       \/ part = "models" /\ ModelsNext
       \/ part = "validation" /\ ValidationNext
       \/ part = "credentials" /\ EnvNext
       \/ part = "plans" /\ PlanNext
       \/ part = "events" /\ EventNext

MCSpec == MCInit /\ [][MCNext]_AllVars

=============================================================================

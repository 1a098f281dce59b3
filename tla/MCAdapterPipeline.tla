--------------------------- MODULE MCAdapterPipeline ---------------------------
(***************************************************************************)
(* Two runs that share the destination of merged checkpoints: one of a     *)
(* style corpus trained by TrainJobs, one of domain rows trained in its    *)
(* own pod.                                                                *)
(***************************************************************************)
EXTENDS AdapterPipeline

CONSTANTS style, domain

MCAdapterFiles == <<"adapter_config.json", "adapter_model.safetensors">>
MCMergedFiles == <<"config.json", "model.safetensors">>
MCRowSets == {<<1>>, <<3, 1>>}
MCMerging == {{style, domain}, {style}}
==============================================================================

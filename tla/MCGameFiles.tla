----------------------------- MODULE MCGameFiles ------------------------------
(* TLC instance of GameFiles. *)
EXTENDS GameFiles

(* The options a player changes together: every one alone, the overall      *)
(* quality, and the pairs whose keys overlap.                               *)
MCMenus ==
    {{o} : o \in {"resolution", "grain", "overall", "display", "environment", "fx",
                  "texture_resolution", "texture_filtering", "shadow", "character",
                  "bloom", "ambient_occlusion", "flex", "vsync", "variable_rate",
                  "reflections", "anti_aliasing", "motion_blur", "depth_of_field",
                  "volumetric", "lens_flares", "light_shafts"}}
    \cup {{"environment", "flex"}, {"texture_resolution", "texture_filtering"}}
=============================================================================

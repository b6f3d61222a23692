------------------------- MODULE MCSistemaArchivos -------------------------
(* Blocks of three characters and eight of them: what two or three requests *)
(* store crosses blocks, and a few more fill the device.                    *)
EXTENDS SistemaArchivos

NingunResiduo == {{}}
=============================================================================

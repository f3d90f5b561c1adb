------------------------------ MODULE Geometry ------------------------------
(***************************************************************************)
(* The strides of src/src/omap_driver.c and the sizes of the buffers that  *)
(* are made from them: what the scanout buffer, pixmaps and Xv planes      *)
(* agree on.                                                               *)
(***************************************************************************)
EXTENDS Integers

\* n rounded up to a multiple of b, which the code writes (n + b - 1) & ~(b - 1).
AlignUp(n, b) == ((n + b - 1) \div b) * b

STRIDE_BOUNDARY == 32

TILED_STRIDE_BOUNDARY == 4096

\* OMAPCalculateStride: whole blocks of 32 pixels, in bytes.
Stride(width, bpp) == (AlignUp(width, STRIDE_BOUNDARY) * bpp + 7) \div 8

\* OMAPCalculateTiledStride: whole pages.
TiledStride(width, bpp) == AlignUp(Stride(width, bpp), TILED_STRIDE_BOUNDARY)

\* The pitch drmmode_reallocate_scanout computes.
PitchOf(width, bpp, tiled) == IF tiled THEN TiledStride(width, bpp) ELSE Stride(width, bpp)

\* What omap_bo_new_tiled reserves for a row: the row itself in whole pages.
TilerRow(width, bpp) == AlignUp(width * (bpp \div 8), TILED_STRIDE_BOUNDARY)
=============================================================================

------------------------------ MODULE MCRaster ------------------------------
(***************************************************************************)
(* Instances of Raster: pages of one byte, of one bit (nine pixels, so two *)
(* packed bytes with padding) and of two bytes per color value.            *)
(***************************************************************************)
EXTENDS Raster

Gray8  == [width |-> 2, height |-> 2, bitsPerPixel |-> 8, bitsPerColor |-> 8,
           bytesPerLine |-> 2]
Gray1  == [width |-> 9, height |-> 1, bitsPerPixel |-> 1, bitsPerColor |-> 1,
           bytesPerLine |-> 2]
Gray16 == [width |-> 2, height |-> 1, bitsPerPixel |-> 16, bitsPerColor |-> 16,
           bytesPerLine |-> 4]

MCHeaders == <<Gray8, Gray1, Gray16>>
=============================================================================

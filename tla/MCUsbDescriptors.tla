-------------------------- MODULE MCUsbDescriptors --------------------------
(* The texts of tusb_config.h, and longer ones around the limit of 31.     *)
EXTENDS UsbDescriptors

MCTexts == {<<13, 4, 6, 24>>, <<30, 0, 31, 32>>, <<40, 4, 6, 255>>}
=============================================================================

-------------------------------- MODULE MCIsa --------------------------------
EXTENDS ShIsa

AllArchs == [mips |-> MipsArch, ppc |-> PpcArch(FALSE), arm |-> ArmArch, sh2 |-> ShArch]
LoadUpdateArch == [ppc |-> PpcArch(TRUE)]
=============================================================================

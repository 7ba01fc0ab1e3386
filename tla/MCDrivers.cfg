SPECIFICATION Spec
CONSTANTS
    Cells = 1
PROPERTIES
    PodsDriverSpec
    UsbEagerSpec
    JimDeviceSpec
